---- MODULE Spec2Model ----
\* Model of the cancellable futures of orf (src/src/future.ts): the classes
\* __Future and __FallibleFuture, their state machine (pending / completed /
\* cancelled), the callback lists and the combinators built on them.
\*
\* Every method of the source runs synchronously to completion, callbacks
\* included, so each API call is one action; the callbacks a call triggers are
\* evaluated inside the action by the recursive operators below, which take a
\* world (the heap of futures plus the trace of callback invocations) and
\* return the world after the call. The callers' subscribers, cleanup
\* routines and mapping functions only observe: they are recorded in the
\* trace and call no method themselves.
EXTENDS Integers, Sequences, FiniteSets, TLC

\* ---------------------------------------------------------------- bounds
\* Futures alive at once, subscriptions made, and method calls made after the
\* construction of the first future.
MaxTasks == 3
MaxSubs == 3
MaxOps == 4
\* Futures given to Future.all / Future.allFromDict.
MaxElems == 2
\* Results given to Result.all / Result.allFromDict.
MaxLen == 3

\* The payloads futures are resolved with.
Values == {1, 2}
Fns == {"dbl"}

\* tasks:  the heap of futures, in creation order (a future is its index)
\* log:    the trace of invocations of user code (see Ev)
\* subs:   the user subscriptions made so far (a subscriber is its index)
\* origin: how each future was created
\* lastOp: the API call that produced the current state
\* nops:   number of API calls made
VARIABLES tasks, log, subs, origin, lastOp, nops
vars == <<tasks, log, subs, origin, lastOp, nops>>

\* ---------------------------------------------------------------- values
\* A resolved value: a plain T ("raw"), or a Result ("Ok" / "Error").
NoVal == [tag |-> "none", v |-> 0]
Raw(v) == [tag |-> "raw", v |-> v]
Ok(v) == [tag |-> "Ok", v |-> v]
Error(v) == [tag |-> "Error", v |-> v]

\* The fallback value handed to unwrapOr, and the error an unwrapped future
\* hands to its cancellation handler: new Error("Cannot cancel UnwrappedFuture").
OrValue == 0
CannotCancel == [tag |-> "error", v |-> 0]

\* The functions handed to map: x => x * 2.
Apply(f, v) == IF f = "dbl" THEN 2 * v ELSE v

\* ---------------------------------------------------------------- closures
\* Callbacks stored in the lists, as data: k is what the closure does.
NoCb == [k |-> "null", t |-> 0, f |-> "-", id |-> 0]
UserCb(t, id) == [k |-> "user", t |-> t, f |-> "-", id |-> id]
\* A callback of the caller that, when invoked, calls onResolved on the same
\* future with a callback of its own, subscriber id + 1.
ReenterCb(t, id) == [k |-> "reenter", t |-> t, f |-> "-", id |-> id]
CleanupCb(t) == [k |-> "cleanup", t |-> t, f |-> "-", id |-> 0]
CancelBind(t) == [k |-> "cancel", t |-> t, f |-> "-", id |-> 0]
MapCb(t, f) == [k |-> "map", t |-> t, f |-> f, id |-> 0]
FallibleMapCb(t, f) == [k |-> "fmap", t |-> t, f |-> f, id |-> 0]
ThenSome(t, id) == [k |-> "thenSome", t |-> t, f |-> "-", id |-> id]
ThenNone(t, id) == [k |-> "thenNone", t |-> t, f |-> "-", id |-> id]
MapErrorCb(t, f) == [k |-> "fmapError", t |-> t, f |-> f, id |-> 0]
AndThenCb(t, f) == [k |-> "andThen", t |-> t, f |-> f, id |-> 0]
OrElseCb(t, f) == [k |-> "orElse", t |-> t, f |-> f, id |-> 0]
\* The succeed / fail functions a start routine of t is given.
SucceedCb(t) == [k |-> "succeed", t |-> t, f |-> "-", id |-> 0]
FailCb(t) == [k |-> "fail", t |-> t, f |-> "-", id |-> 0]
\* The wrappers of onSucceeded / onFailed: cb is called with the payload of
\* the matching variant, and not at all on the other variant.
IfOk(cb) == [k |-> "ifOk", t |-> cb.t, f |-> cb.k, id |-> cb.id]
IfError(cb) == [k |-> "ifError", t |-> cb.t, f |-> cb.k, id |-> cb.id]
Unwrapped(cb) == [k |-> cb.f, t |-> cb.t, f |-> "-", id |-> cb.id]
\* Closures over an unwrapped future t: its #resolve, () => resolve(or_value),
\* its cancel, and the two callbacks an await hands to then.
UnwrappedResolveCb(t) == [k |-> "unwrappedResolve", t |-> t, f |-> "-", id |-> 0]
ResolveOrCb(t) == [k |-> "resolveOr", t |-> t, f |-> "-", id |-> 0]
UnwrappedCancelBind(t) == [k |-> "unwrappedCancel", t |-> t, f |-> "-", id |-> 0]
AwaitValue(t, id) == [k |-> "awaitValue", t |-> t, f |-> "-", id |-> id]
AwaitThrow(t, id) == [k |-> "awaitThrow", t |-> t, f |-> "-", id |-> id]
\* () => resolve(or_fn()) of unwrapOrElse, and the subscriber of match:
\* (result) => resolve(result.match(config)).
ResolveOrElseCb(t) == [k |-> "resolveOrElse", t |-> t, f |-> "-", id |-> 0]
MatchCb(t) == [k |-> "match", t |-> t, f |-> "-", id |-> 0]
\* The subscriber Future.all / allFromDict registers on element i of array
\* for aggregate t; mode is the branch ("all", "allFallible", "dict",
\* "dictFallible"). The cleanup routine of the aggregate.
GatherCb(t, i, array, mode) ==
  [k |-> "gather", t |-> t, f |-> mode, id |-> i, array |-> array]
CancelEach(array) ==
  [k |-> "cancelEach", t |-> 0, f |-> "-", id |-> 0, array |-> array]

\* Start routines (execute), as data.
NoExec == [k |-> "null", sync |-> NoVal, cleanup |-> FALSE, src |-> 0, f |-> "-"]
UserExec(sync, cleanup) ==
  [k |-> "user", sync |-> sync, cleanup |-> cleanup, src |-> 0, f |-> "-"]
MapExec(src, f) == [k |-> "map", sync |-> NoVal, cleanup |-> FALSE, src |-> src, f |-> f]
FallibleMapExec(src, f) ==
  [k |-> "fmap", sync |-> NoVal, cleanup |-> FALSE, src |-> src, f |-> f]
MapErrorExec(src, f) ==
  [k |-> "fmapError", sync |-> NoVal, cleanup |-> FALSE, src |-> src, f |-> f]
AndThenExec(src, f) ==
  [k |-> "andThen", sync |-> NoVal, cleanup |-> FALSE, src |-> src, f |-> f]
OrElseExec(src, f) ==
  [k |-> "orElse", sync |-> NoVal, cleanup |-> FALSE, src |-> src, f |-> f]
UnwrapExec(src) ==
  [k |-> "unwrap", sync |-> NoVal, cleanup |-> FALSE, src |-> src, f |-> "-"]
UnwrapOrExec(src) ==
  [k |-> "unwrapOr", sync |-> NoVal, cleanup |-> FALSE, src |-> src, f |-> "-"]
UnwrapOrElseExec(src) ==
  [k |-> "unwrapOrElse", sync |-> NoVal, cleanup |-> FALSE, src |-> src, f |-> "-"]
MatchExec(src) ==
  [k |-> "match", sync |-> NoVal, cleanup |-> FALSE, src |-> src, f |-> "-"]
NeverErrorExec(src) ==
  [k |-> "neverError", sync |-> NoVal, cleanup |-> FALSE, src |-> src, f |-> "-"]
GatherExec(array, mode) ==
  [k |-> "gather", sync |-> NoVal, cleanup |-> FALSE, src |-> 0, f |-> mode,
   array |-> array]

\* ---------------------------------------------------------------- states
PendingState(fallible, lazy, execute) ==
  [fallible |-> fallible, lazy |-> lazy, tag |-> "pending", value |-> NoVal,
   execute |-> execute, resolve_callbacks |-> <<>>, cancel |-> NoCb,
   cancel_callbacks |-> <<>>]

CompletedState(old, value) ==
  [old EXCEPT !.tag = "completed", !.value = value, !.execute = NoExec,
              !.resolve_callbacks = <<>>, !.cancel = NoCb, !.cancel_callbacks = <<>>]

CancelledState(old) ==
  [old EXCEPT !.tag = "cancelled", !.value = NoVal, !.execute = NoExec,
              !.resolve_callbacks = <<>>, !.cancel = NoCb, !.cancel_callbacks = <<>>]

\* ---------------------------------------------------------------- trace
\* One entry per invocation of user code: a subscriber ("cb"), a cleanup
\* routine ("cleanup"), a start routine ("start"), a mapping function ("fn")
\* or the callback of an awaiter ("deliver", opt is Some / None). For a start
\* routine opt tells whether it returns a cleanup routine. tag is the state
\* of future t at the moment of the call. The trace also keeps the variables
\* captured by the start routine of an aggregate t: a "slot" entry is the
\* assignment results[id] = arg, and count is the number of them.
Ev(w, e, id, t, arg, opt) ==
  [e |-> e, id |-> id, t |-> t, arg |-> arg, opt |-> opt, tag |-> w.tasks[t].tag]

Record(w, e, id, t, arg, opt) ==
  [w EXCEPT !.log = Append(@, Ev(w, e, id, t, arg, opt))]

SetTask(w, t, state) == [w EXCEPT !.tasks[t] = state]
\* ---------------------------------------------------------------- methods
RECURSIVE Invoke(_, _, _), InvokeAll(_, _, _)
RECURSIVE resolve(_, _, _), succeed(_, _, _), fail(_, _, _), cancel(_, _)
RECURSIVE onResolved(_, _, _), onCancelled(_, _, _)
RECURSIVE andThenCallback(_, _, _, _), orElseCallback(_, _, _, _)
RECURSIVE gatherCallback(_, _, _, _, _, _), cancelEach(_, _), neverError(_, _)
RECURSIVE subscribeEach(_, _, _, _, _)
RECURSIVE unwrappedResolve(_, _, _), unwrappedCancel(_, _)
RECURSIVE Execute(_, _, _), then(_, _, _), Construct(_, _)
RECURSIVE matchCallback(_, _, _)

\* A dispatch that visits the callbacks last-registered first.
forEachReversed(cbs) == [i \in 1..Len(cbs) |-> cbs[Len(cbs) + 1 - i]]

\* Array.prototype.forEach visits the callbacks in index order.
forEach(cbs) == cbs

\* A map subscriber that forwards the source's value without applying map_fn.
mapCallbackNoFn(w, t, f, arg) == resolve(w, t, arg)

\* The subscriber map registers on its source: resolve(map_fn(value)).
mapCallback(w, t, f, arg) ==
  resolve(Record(w, "fn", 0, t, arg, "-"), t, Raw(Apply(f, arg.v)))

\* The subscriber __FallibleFuture.map registers on its source.
fallibleMapCallback(w, t, f, arg) ==
  IF arg.tag = "Ok"
  THEN succeed(Record(w, "fn", 0, t, arg, "-"), t, Apply(f, arg.v))
  ELSE fail(w, t, arg.v)

\* A mapError subscriber that applies map_fn to the payload of either variant.
mapErrorCallbackBoth(w, t, f, arg) ==
  IF arg.tag = "Ok"
  THEN succeed(Record(w, "fn", 0, t, arg, "-"), t, Apply(f, arg.v))
  ELSE fail(Record(w, "fn", 0, t, arg, "-"), t, Apply(f, arg.v))

\* The subscriber __FallibleFuture.mapError registers on its source.
mapErrorCallback(w, t, f, arg) ==
  IF arg.tag = "Ok"
  THEN succeed(w, t, arg.v)
  ELSE fail(Record(w, "fn", 0, t, arg, "-"), t, Apply(f, arg.v))

\* cb(arg): what calling a stored closure does.
Invoke(w, cb, arg) ==
  CASE cb.k = "user" -> Record(w, "cb", cb.id, cb.t, arg, "-")
    [] cb.k = "reenter" ->
         onResolved(Record(w, "cb", cb.id, cb.t, arg, "-"), cb.t, UserCb(cb.t, cb.id + 1))
    [] cb.k = "cleanup" -> Record(w, "cleanup", 0, cb.t, NoVal, "-")
    [] cb.k = "cancel" -> cancel(w, cb.t)
    [] cb.k = "map" -> mapCallback(w, cb.t, cb.f, arg)
    [] cb.k = "fmap" -> fallibleMapCallback(w, cb.t, cb.f, arg)
    [] cb.k = "fmapError" -> mapErrorCallback(w, cb.t, cb.f, arg)
    [] cb.k = "andThen" -> andThenCallback(w, cb.t, cb.f, arg)
    [] cb.k = "orElse" -> orElseCallback(w, cb.t, cb.f, arg)
    [] cb.k = "gather" -> gatherCallback(w, cb.t, cb.id, cb.array, cb.f, arg)
    [] cb.k = "cancelEach" -> cancelEach(w, cb.array)
    [] cb.k = "unwrappedResolve" -> unwrappedResolve(w, cb.t, arg)
    [] cb.k = "resolveOr" -> unwrappedResolve(w, cb.t, Raw(OrValue))
    [] cb.k = "unwrappedCancel" -> unwrappedCancel(w, cb.t)
    [] cb.k = "resolveOrElse" ->
         unwrappedResolve(Record(w, "fn", 0, cb.t, NoVal, "or_fn"), cb.t, Raw(OrValue))
    [] cb.k = "match" -> matchCallback(w, cb.t, arg)
    [] cb.k = "awaitValue" -> Record(w, "deliver", cb.id, cb.t, arg, "value")
    [] cb.k = "awaitThrow" -> Record(w, "deliver", cb.id, cb.t, arg, "throw")
    [] cb.k = "succeed" -> succeed(w, cb.t, arg.v)
    [] cb.k = "fail" -> fail(w, cb.t, arg.v)
    [] cb.k = "ifOk" -> IF arg.tag = "Ok" THEN Invoke(w, Unwrapped(cb), arg) ELSE w
    [] cb.k = "ifError" -> IF arg.tag = "Error" THEN Invoke(w, Unwrapped(cb), arg) ELSE w
    [] cb.k = "thenSome" -> Record(w, "deliver", cb.id, cb.t, arg, "Some")
    [] cb.k = "thenNone" -> Record(w, "deliver", cb.id, cb.t, NoVal, "None")
    [] OTHER -> w

InvokeAll(w, cbs, arg) ==
  IF cbs = <<>> THEN w
  ELSE InvokeAll(Invoke(w, Head(cbs), arg), Tail(cbs), arg)

\* #resolve without the check of the state tag.
resolveUnguarded(w, t, value) ==
  LET resolve_callbacks == w.tasks[t].resolve_callbacks
  IN  InvokeAll(SetTask(w, t, CompletedState(w.tasks[t], value)),
                forEach(resolve_callbacks), value)

\* #resolve that runs the cleanup routine before it notifies.
resolveRunsCleanup(w, t, value) ==
  IF w.tasks[t].tag = "pending"
  THEN InvokeAll(IF w.tasks[t].cancel.k # "null"
                 THEN Invoke(SetTask(w, t, CompletedState(w.tasks[t], value)),
                             w.tasks[t].cancel, NoVal)
                 ELSE SetTask(w, t, CompletedState(w.tasks[t], value)),
                 forEach(w.tasks[t].resolve_callbacks), value)
  ELSE w

\* __Future.#resolve
resolve(w, t, value) ==
  IF w.tasks[t].tag = "pending"
  THEN LET resolve_callbacks == w.tasks[t].resolve_callbacks
       IN  InvokeAll(SetTask(w, t, CompletedState(w.tasks[t], value)),
                     forEach(resolve_callbacks), value)
  ELSE w

\* #succeed without the check of the state tag.
succeedUnguarded(w, t, v) ==
  LET resolve_callbacks == w.tasks[t].resolve_callbacks
      result == Ok(v)
  IN  InvokeAll(SetTask(w, t, CompletedState(w.tasks[t], result)),
                forEach(resolve_callbacks), result)

\* __FallibleFuture.#succeed
succeed(w, t, v) ==
  IF w.tasks[t].tag = "pending"
  THEN LET resolve_callbacks == w.tasks[t].resolve_callbacks
           result == Ok(v)
       IN  InvokeAll(SetTask(w, t, CompletedState(w.tasks[t], result)),
                     forEach(resolve_callbacks), result)
  ELSE w

\* __FallibleFuture.#fail
fail(w, t, v) ==
  IF w.tasks[t].tag = "pending"
  THEN LET resolve_callbacks == w.tasks[t].resolve_callbacks
           result == Error(v)
       IN  InvokeAll(SetTask(w, t, CompletedState(w.tasks[t], result)),
                     forEach(resolve_callbacks), result)
  ELSE w

\* onResolved that calls back on every future that is not pending.
onResolvedAnyTerminal(w, t, cb) ==
  IF w.tasks[t].tag = "pending"
  THEN [w EXCEPT !.tasks[t].resolve_callbacks = Append(@, cb)]
  ELSE Invoke(w, cb, w.tasks[t].value)

\* onResolved of both classes
onResolved(w, t, cb) ==
  IF w.tasks[t].tag = "pending"
  THEN [w EXCEPT !.tasks[t].resolve_callbacks = Append(@, cb)]
  ELSE IF w.tasks[t].tag = "completed"
  THEN Invoke(w, cb, w.tasks[t].value)
  ELSE w

\* onCancelled that calls back on every future that is not pending.
onCancelledAnyTerminal(w, t, cb) ==
  IF w.tasks[t].tag = "pending"
  THEN [w EXCEPT !.tasks[t].cancel_callbacks = Append(@, cb)]
  ELSE Invoke(w, cb, NoVal)

\* onCancelled of both classes
onCancelled(w, t, cb) ==
  IF w.tasks[t].tag = "pending"
  THEN [w EXCEPT !.tasks[t].cancel_callbacks = Append(@, cb)]
  ELSE IF w.tasks[t].tag = "cancelled"
  THEN Invoke(w, cb, NoVal)
  ELSE w

\* A cancel that runs the cleanup routine twice.
RunCleanupTwice(w, cleanup) ==
  IF cleanup.k # "null" THEN Invoke(Invoke(w, cleanup, NoVal), cleanup, NoVal) ELSE w

\* if (cancel) cancel(): the cleanup routine runs when there is one.
RunCleanup(w, cleanup) ==
  IF cleanup.k # "null" THEN Invoke(w, cleanup, NoVal) ELSE w

\* cancel that marks the state cancelled in place, keeping the subscriber
\* list, and only refuses a completed future: a second call fires the
\* cancel-subscribers again.
cancelAgain(w, t) ==
  IF w.tasks[t].tag # "completed"
  THEN LET cleanup == w.tasks[t].cancel
           cancel_callbacks == w.tasks[t].cancel_callbacks
           w1 == SetTask(w, t, [CancelledState(w.tasks[t]) EXCEPT
                                  !.cancel_callbacks = cancel_callbacks])
       IN  InvokeAll(RunCleanup(w1, cleanup), forEach(cancel_callbacks), NoVal)
  ELSE w

\* cancel that notifies the cancel-subscribers before it runs the cleanup.
cancelSubscribersFirst(w, t) ==
  IF w.tasks[t].tag = "pending"
  THEN LET cleanup == w.tasks[t].cancel
           cancel_callbacks == w.tasks[t].cancel_callbacks
           w1 == SetTask(w, t, CancelledState(w.tasks[t]))
       IN  RunCleanup(InvokeAll(w1, forEach(cancel_callbacks), NoVal), cleanup)
  ELSE w

\* cancel of both classes
cancel(w, t) ==
  IF w.tasks[t].tag = "pending"
  THEN LET cleanup == w.tasks[t].cancel
           cancel_callbacks == w.tasks[t].cancel_callbacks
           w1 == SetTask(w, t, CancelledState(w.tasks[t]))
       IN  InvokeAll(RunCleanup(w1, cleanup), forEach(cancel_callbacks), NoVal)
  ELSE w

\* Running a start routine: the world after it returns, and what it returns.
\* A user routine may call resolve / succeed / fail before it returns (sync)
\* and may return a cleanup routine; the routine of map subscribes to the
\* source and returns the source's cancel.
Execute(w, t, execute) ==
  CASE execute.k = "user" ->
         LET w1 == Record(w, "start", 0, t, NoVal, IF execute.cleanup THEN "cleanup" ELSE "-")
         IN  [w |-> CASE execute.sync.tag = "raw" -> resolve(w1, t, execute.sync)
                      [] execute.sync.tag = "Ok" -> succeed(w1, t, execute.sync.v)
                      [] execute.sync.tag = "Error" -> fail(w1, t, execute.sync.v)
                      [] OTHER -> w1,
              ret |-> IF execute.cleanup THEN CleanupCb(t) ELSE NoCb]
    [] execute.k = "map" ->
         [w |-> onResolved(w, execute.src, MapCb(t, execute.f)),
          ret |-> CancelBind(execute.src)]
    [] execute.k = "fmap" ->
         [w |-> onResolved(w, execute.src, FallibleMapCb(t, execute.f)),
          ret |-> CancelBind(execute.src)]
    [] execute.k = "fmapError" ->
         [w |-> onResolved(w, execute.src, MapErrorCb(t, execute.f)),
          ret |-> CancelBind(execute.src)]
    [] execute.k = "andThen" ->
         [w |-> onResolved(w, execute.src, AndThenCb(t, execute.f)),
          ret |-> CancelBind(execute.src)]
    [] execute.k = "orElse" ->
         [w |-> onResolved(w, execute.src, OrElseCb(t, execute.f)),
          ret |-> CancelBind(execute.src)]
    [] execute.k = "unwrap" ->
         [w |-> onResolved(w, execute.src, UnwrappedResolveCb(t)), ret |-> NoCb]
    [] execute.k = "unwrapOr" ->
         [w |-> onCancelled(onResolved(w, execute.src, UnwrappedResolveCb(t)),
                            execute.src, ResolveOrCb(t)),
          ret |-> ResolveOrCb(t)]
    [] execute.k = "unwrapOrElse" ->
         [w |-> onCancelled(onResolved(w, execute.src, UnwrappedResolveCb(t)),
                            execute.src, ResolveOrElseCb(t)),
          ret |-> ResolveOrElseCb(t)]
    [] execute.k = "match" ->
         [w |-> onResolved(w, execute.src, MatchCb(t)), ret |-> NoCb]
    [] execute.k = "neverError" ->
         [w |-> onResolved(w, execute.src, SucceedCb(t)),
          ret |-> CancelBind(execute.src)]
    [] execute.k = "gather" ->
         [w |-> subscribeEach(w, t, execute.array, execute.f, 1),
          ret |-> CancelEach(execute.array)]
    [] OTHER -> [w |-> w, ret |-> NoCb]

\* then that stores the cleanup but leaves execute in place.
AfterExecuteKeepsExecute(w, t, ret) ==
  IF w.tasks[t].tag = "pending"
  THEN [w EXCEPT !.tasks[t].cancel = IF ret.k # "null" THEN ret ELSE @]
  ELSE w

\* The two assignments of then after execute returned. When the routine
\* resolved the future synchronously they land on the completed state
\* object, where nothing reads them.
AfterExecute(w, t, ret) ==
  IF w.tasks[t].tag = "pending"
  THEN [w EXCEPT !.tasks[t].execute = NoExec,
                 !.tasks[t].cancel = IF ret.k # "null" THEN ret ELSE @]
  ELSE w

\* this.#state.cancel = execute(...) on the pair the start routine left.
Executed(r, t) == AfterExecute(r.w, t, r.ret)

\* The first lines of then: a pending future that still has its start
\* routine runs it.
RunExecute(w, t) ==
  IF w.tasks[t].tag = "pending" /\ w.tasks[t].execute.k # "null"
  THEN Executed(Execute(w, t, w.tasks[t].execute), t)
  ELSE w

\* then that subscribes the awaiter to the resolution only.
thenResolvedOnly(w, t, aw) ==
  IF aw # 0 THEN onResolved(RunExecute(w, t), t, ThenSome(t, aw)) ELSE RunExecute(w, t)

\* then of both classes; aw = 0 is a call without callback
then(w, t, aw) ==
  IF aw # 0
  THEN onCancelled(onResolved(RunExecute(w, t), t, ThenSome(t, aw)), t, ThenNone(t, aw))
  ELSE RunExecute(w, t)

\* new __Future(state, options) / new __FallibleFuture(state, options)
Construct(w, state) ==
  LET id == Len(w.tasks) + 1
      w1 == [w EXCEPT !.tasks = Append(@, state)]
  IN  IF ~state.lazy THEN then(w1, id, 0) ELSE w1

\* map that does not subscribe the new future's cancel to the source.
mapOneWay(w, src, f) ==
  Construct(w, PendingState(FALSE, FALSE, MapExec(src, f)))

\* map that starts its source before it subscribes to it.
mapStartsSource(w, src, f) ==
  LET future == Len(w.tasks) + 1
  IN  onCancelled(Construct(RunExecute(w, src), PendingState(FALSE, FALSE, MapExec(src, f))),
                  src, CancelBind(future))

\* __Future.map
map(w, src, f) ==
  LET future == Len(w.tasks) + 1
  IN  onCancelled(Construct(w, PendingState(FALSE, FALSE, MapExec(src, f))), src, CancelBind(future))

\* __FallibleFuture.map
fallibleMap(w, src, f) ==
  LET future == Len(w.tasks) + 1
  IN  onCancelled(Construct(w, PendingState(TRUE, FALSE, FallibleMapExec(src, f))), src, CancelBind(future))

\* __FallibleFuture.mapError
mapError(w, src, f) ==
  LET future == Len(w.tasks) + 1
  IN  onCancelled(Construct(w, PendingState(TRUE, FALSE, MapErrorExec(src, f))), src, CancelBind(future))

\* __FallibleFuture.onSucceeded / onFailed
onSucceeded(w, t, cb) == onResolved(w, t, IfOk(cb))
onFailed(w, t, cb) == onResolved(w, t, IfError(cb))

\* The continuation functions handed to andThen / orElse, on payload v:
\*   "Ok"     v => Result.Ok(v * 2)
\*   "Error"  v => Result.Error(v * 2)
\*   "future" v => Future.makeFallible(...), a future still pending when the
\*            function returns, resolved or cancelled later by its maker
\* fromFallible is the world after Future.fromFallible(then_fn(v)): a Result
\* becomes Future.success / Future.fail, a FallibleFuture is taken as it
\* is. Either way the future `next` is the newest of the heap.
Continuations == {"Ok", "Error", "future"}
fromFallible(w, g, v) ==
  CASE g = "Ok" ->
         Construct(w, CompletedState(PendingState(TRUE, FALSE, NoExec), Ok(Apply("dbl", v))))
    [] g = "Error" ->
         Construct(w, CompletedState(PendingState(TRUE, FALSE, NoExec), Error(Apply("dbl", v))))
    [] OTHER ->
         Construct(w, PendingState(TRUE, FALSE, UserExec(NoVal, FALSE)))

\* A continuation step that forwards only the success of `next`.
ContinueSuccessOnly(w, t, g, arg) ==
  LET next == Len(w.tasks) + 1
  IN  onSucceeded(fromFallible(Record(w, "fn", next, t, arg, g), g, arg.v),
                  next, SucceedCb(t))

\* The Ok arm of andThen's subscriber (the Error arm of orElse's): call the
\* continuation, subscribe the new future's succeed and fail to `next`.
Continue(w, t, g, arg) ==
  LET next == Len(w.tasks) + 1
  IN  onFailed(onSucceeded(fromFallible(Record(w, "fn", next, t, arg, g), g, arg.v),
                           next, SucceedCb(t)),
               next, FailCb(t))

\* The subscriber andThen registers on its source.
andThenCallback(w, t, g, arg) ==
  IF arg.tag = "Ok" THEN Continue(w, t, g, arg) ELSE fail(w, t, arg.v)

\* An orElse subscriber that calls the continuation on either variant.
orElseCallbackAlways(w, t, g, arg) == Continue(w, t, g, arg)

\* The subscriber orElse registers on its source.
orElseCallback(w, t, g, arg) ==
  IF arg.tag = "Ok" THEN succeed(w, t, arg.v) ELSE Continue(w, t, g, arg)

\* __FallibleFuture.andThen
andThen(w, src, g) ==
  LET future == Len(w.tasks) + 1
  IN  onCancelled(Construct(w, PendingState(TRUE, FALSE, AndThenExec(src, g))), src, CancelBind(future))

\* __FallibleFuture.orElse
orElse(w, src, g) ==
  LET future == Len(w.tasks) + 1
  IN  onCancelled(Construct(w, PendingState(TRUE, FALSE, OrElseExec(src, g))), src, CancelBind(future))

\* __Future.neverError
neverError(w, src) ==
  LET future == Len(w.tasks) + 1
  IN  onCancelled(Construct(w, PendingState(TRUE, FALSE, NeverErrorExec(src))), src, CancelBind(future))

\* A Result.all that returns the last Error of the array.
resultAllLastError(array, values) ==
  IF \E i \in 1..Len(array) : array[i].tag = "Error"
  THEN array[CHOOSE i \in 1..Len(array) :
               /\ array[i].tag = "Error"
               /\ \A j \in (i + 1)..Len(array) : array[j].tag # "Error"]
  ELSE Ok([i \in 1..Len(array) |-> array[i].v])

\* Result.all: the first Error of the array, else Ok of the payloads.
RECURSIVE resultAll(_, _)
resultAll(array, values) ==
  IF array = <<>> THEN Ok(values)
  ELSE IF Head(array).tag = "Error" THEN Head(array)
  ELSE resultAll(Tail(array), Append(values, Head(array).v))

\* A Result.allFromDict that returns the last Error of the object.
resultAllFromDictLastError(dict, return_dict) ==
  IF \E i \in 1..Len(dict) : dict[i][2].tag = "Error"
  THEN dict[CHOOSE i \in 1..Len(dict) :
              /\ dict[i][2].tag = "Error"
              /\ \A j \in (i + 1)..Len(dict) : dict[j][2].tag # "Error"][2]
  ELSE Ok([i \in 1..Len(dict) |-> <<dict[i][1], dict[i][2].v>>])

\* Result.allFromDict: the same over the entries <<key, result>> of an
\* object, in the order for-in enumerates them.
RECURSIVE resultAllFromDict(_, _)
resultAllFromDict(dict, return_dict) ==
  IF dict = <<>> THEN Ok(return_dict)
  ELSE IF Head(dict)[2].tag = "Error" THEN Head(dict)[2]
  ELSE resultAllFromDict(Tail(dict), Append(return_dict, <<Head(dict)[1], Head(dict)[2].v>>))

\* The property names of the objects given to allFromDict: element i is
\* stored under Keys[i]. Names that are not array indices, which an object
\* enumerates in the order they were first assigned.
Keys == <<"a", "b", "c", "d">>

\* The assignments results[...] = ... made so far for aggregate t.
Slots(l, t) == SelectSeq(l, LAMBDA ev : ev.e = "slot" /\ ev.t = t)

\* results filled by results.push(value): in the order of the assignments.
ArrayResultsPushed(slots, n) ==
  [i \in 1..n |-> IF i <= Len(slots) THEN slots[i].arg ELSE NoVal]

\* results of Future.all: new Array(n) after the assignments; entry i holds
\* the value last assigned to it, if any.
ArrayResults(slots, n) ==
  [i \in 1..n |->
     LET mine == SelectSeq(slots, LAMBDA ev : ev.id = i)
     IN  IF mine = <<>> THEN NoVal ELSE mine[Len(mine)].arg]

\* obj[key] = value on an object kept as its entries in enumeration order.
Assign(obj, key, val) ==
  IF \E j \in 1..Len(obj) : obj[j][1] = key
  THEN [j \in 1..Len(obj) |-> IF obj[j][1] = key THEN <<key, val>> ELSE obj[j]]
  ELSE Append(obj, <<key, val>>)

\* results of Future.allFromDict: {} after the assignments.
RECURSIVE DictResults(_)
DictResults(slots) ==
  IF slots = <<>> THEN <<>>
  ELSE LET last == slots[Len(slots)]
       IN  Assign(DictResults(SubSeq(slots, 1, Len(slots) - 1)), Keys[last.id], last.arg)

\* Result.match({Ok: ok, Error: error}) with the aggregate's succeed / fail.
Settle(w, t, r) == IF r.tag = "Ok" THEN succeed(w, t, r.v) ELSE fail(w, t, r.v)

\* A subscriber that fails the aggregate as soon as an element has failed.
gatherCallbackFailFast(w, t, i, array, mode, arg) ==
  LET w1 == Record(w, "slot", i, t, arg, "-")
      slots == Slots(w1.log, t)
  IN  IF arg.tag = "Error" THEN fail(w1, t, arg.v)
      ELSE IF Len(slots) = Len(array)
      THEN Settle(w1, t, resultAll(ArrayResults(slots, Len(array)), <<>>))
      ELSE w1

\* The subscriber of the aggregate on element i: store the value, count, and
\* resolve with the results once count reaches the number of elements.
gatherCallback(w, t, i, array, mode, arg) ==
  LET w1 == Record(w, "slot", i, t, arg, "-")
      slots == Slots(w1.log, t)
      count == Len(slots)
      results == ArrayResults(slots, Len(array))
      keyed == DictResults(slots)
  IN  IF count = Len(array)
      THEN CASE mode = "all" ->
                  resolve(w1, t, Raw([i2 \in 1..Len(array) |-> results[i2].v]))
             [] mode = "allFallible" -> Settle(w1, t, resultAll(results, <<>>))
             [] mode = "dict" ->
                  resolve(w1, t, Raw([j \in 1..Len(keyed) |-> <<keyed[j][1], keyed[j][2].v>>]))
             [] OTHER -> Settle(w1, t, resultAllFromDict(keyed, <<>>))
      ELSE w1

\* A cleanup routine of the aggregate that cancels no element.
cancelNone(w, array) == w

\* array.forEach((f) => f.cancel())
cancelEach(w, array) ==
  IF array = <<>> THEN w ELSE cancelEach(cancel(w, Head(array)), Tail(array))

\* The loop of the aggregate's start routine, from element i on: in the
\* fallible branches a plain element is replaced by f.neverError() before
\* the subscription.
subscribeEach(w, t, array, mode, i) ==
  IF i > Len(array) THEN w
  ELSE LET promote == mode \in {"allFallible", "dictFallible"} /\ ~w.tasks[array[i]].fallible
           f == IF promote THEN Len(w.tasks) + 1 ELSE array[i]
       IN  subscribeEach(onResolved(IF promote THEN neverError(w, array[i]) ELSE w,
                                    f, GatherCb(t, i, array, mode)),
                         t, array, mode, i + 1)

\* array.forEach((f) => f.onCancelled(future.cancel.bind(future)))
RECURSIVE onCancelledEach(_, _, _)
onCancelledEach(w, array, future) ==
  IF array = <<>> THEN w
  ELSE onCancelledEach(onCancelled(w, Head(array), CancelBind(future)), Tail(array), future)

\* Future.all (keyed = FALSE) and Future.allFromDict (keyed = TRUE) over the
\* futures array; the object given to allFromDict has the properties
\* Keys[1], Keys[2], ... in this order.
Gather(w, array, keyed) ==
  LET has_fallible == \E i \in 1..Len(array) : w.tasks[array[i]].fallible
      mode == IF keyed THEN (IF has_fallible THEN "dictFallible" ELSE "dict")
              ELSE (IF has_fallible THEN "allFallible" ELSE "all")
      future == Len(w.tasks) + 1
  IN  onCancelledEach(Construct(w, PendingState(has_fallible, FALSE, GatherExec(array, mode))),
                      array, future)

all(w, array) == Gather(w, array, FALSE)
allFromDict(w, array) == Gather(w, array, TRUE)

\* ---------------------------------------------------------------- unwrapped
\* __UnwrappedFuture: the field cancel of the record is the private #cancel
\* of the class, which outlives the pending state.

\* #resolve without the check of the state tag.
unwrappedResolveUnguarded(w, t, value) ==
  InvokeAll(SetTask(w, t, [w.tasks[t] EXCEPT !.tag = "completed", !.value = value,
                                             !.execute = NoExec, !.resolve_callbacks = <<>>]),
            forEach(w.tasks[t].resolve_callbacks), value)

\* __UnwrappedFuture.#resolve
unwrappedResolve(w, t, value) ==
  IF w.tasks[t].tag = "pending"
  THEN LET resolve_callbacks == w.tasks[t].resolve_callbacks
           completed == [w.tasks[t] EXCEPT !.tag = "completed", !.value = value,
                                           !.execute = NoExec, !.resolve_callbacks = <<>>]
       IN  InvokeAll(SetTask(w, t, completed), forEach(resolve_callbacks), value)
  ELSE w

\* __UnwrappedFuture.onResolved
unwrappedOnResolved(w, t, cb) ==
  IF w.tasks[t].tag = "pending"
  THEN [w EXCEPT !.tasks[t].resolve_callbacks = Append(@, cb)]
  ELSE IF w.tasks[t].tag = "completed"
  THEN Invoke(w, cb, w.tasks[t].value)
  ELSE w

\* An onCancelled that stores the callback over the one already held.
unwrappedOnCancelledLast(w, t, cb) ==
  IF w.tasks[t].tag = "pending"
  THEN [w EXCEPT !.tasks[t].cancel = cb]
  ELSE IF w.tasks[t].tag = "cancelled" /\ w.tasks[t].cancel.k = "null"
  THEN Invoke(w, cb, CannotCancel)
  ELSE w

\* __UnwrappedFuture.onCancelled
unwrappedOnCancelled(w, t, cb) ==
  IF w.tasks[t].tag = "pending" /\ w.tasks[t].cancel.k = "null"
  THEN [w EXCEPT !.tasks[t].cancel = cb]
  ELSE IF w.tasks[t].tag = "cancelled" /\ w.tasks[t].cancel.k = "null"
  THEN Invoke(w, cb, CannotCancel)
  ELSE w

\* The cancelled state of an unwrapped future.
UnwrappedCancelled(old) ==
  [old EXCEPT !.tag = "cancelled", !.value = NoVal, !.execute = NoExec,
              !.resolve_callbacks = <<>>]

\* A cancel that marks the future cancelled whatever #cancel did.
CancelAnyway(w, t) == SetTask(w, t, UnwrappedCancelled(w.tasks[t]))

\* if (this.#state.tag === "pending") this.#state = {tag: "cancelled"}
CancelIfPending(w, t) ==
  IF w.tasks[t].tag = "pending"
  THEN SetTask(w, t, UnwrappedCancelled(w.tasks[t]))
  ELSE w

\* A cancel that marks the future cancelled without calling #cancel.
unwrappedCancelSilent(w, t) == CancelIfPending(w, t)

\* __UnwrappedFuture.cancel
unwrappedCancel(w, t) ==
  IF w.tasks[t].tag = "pending"
  THEN IF w.tasks[t].cancel.k = "null"
       THEN SetTask(w, t, UnwrappedCancelled(w.tasks[t]))
       ELSE CancelIfPending(Invoke(w, w.tasks[t].cancel, CannotCancel), t)
  ELSE w

\* The branches handed to match: Ok: (x) => x * 2 and Error: (e) => e + 10.
MatchOk(v) == Apply("dbl", v)
MatchError(e) == e + 10

\* A match subscriber that runs the Ok branch on either variant.
matchCallbackOkOnly(w, t, arg) ==
  unwrappedResolve(Record(w, "fn", 0, t, arg, "Ok"), t, Raw(MatchOk(arg.v)))

\* The subscriber match registers on its source: resolve(result.match(config)).
matchCallback(w, t, arg) ==
  IF arg.tag = "Ok"
  THEN unwrappedResolve(Record(w, "fn", 0, t, arg, "Ok"), t, Raw(MatchOk(arg.v)))
  ELSE unwrappedResolve(Record(w, "fn", 0, t, arg, "Error"), t, Raw(MatchError(arg.v)))

\* __UnwrappedFuture.then(onResolved, onCancelled), as an await calls it
unwrappedThen(w, t, aw) ==
  unwrappedOnCancelled(unwrappedOnResolved(w, t, AwaitValue(t, aw)), t, AwaitThrow(t, aw))

\* this.#cancel = execute(...) unless a synchronous cancel has set it.
UnwrappedExecuted(r, id) ==
  [r.w EXCEPT !.tasks[id].execute = NoExec,
              !.tasks[id].cancel = IF r.ret.k # "null" /\ @.k = "null" THEN r.ret ELSE @]

\* new __UnwrappedFuture({tag: "pending", execute})
ConstructUnwrapped(w, execute) ==
  LET id == Len(w.tasks) + 1
      w1 == [w EXCEPT !.tasks = Append(@, PendingState(FALSE, FALSE, execute))]
  IN  UnwrappedExecuted(Execute(w1, id, execute), id)

\* __Future.unwrap
unwrap(w, src) ==
  LET future == Len(w.tasks) + 1
  IN  onCancelled(ConstructUnwrapped(w, UnwrapExec(src)), src, UnwrappedCancelBind(future))

\* __Future.unwrapOr(or_value) / __FallibleFuture.unwrapOr(or_value)
unwrapOr(w, src) == ConstructUnwrapped(w, UnwrapOrExec(src))

\* __Future.unwrapOrElse(or_fn) / __FallibleFuture.unwrapOrElse(or_fn),
\* with or_fn = () => OrValue
unwrapOrElse(w, src) == ConstructUnwrapped(w, UnwrapOrElseExec(src))

\* __FallibleFuture.match(config)
match(w, src) ==
  LET future == Len(w.tasks) + 1
  IN  onCancelled(ConstructUnwrapped(w, MatchExec(src)), src, UnwrappedCancelBind(future))
\* ---------------------------------------------------------------- machine
World == [tasks |-> tasks, log |-> log]
Ids == 1..Len(tasks)

Op(op, t, v, id, pre) == [op |-> op, t |-> t, v |-> v, id |-> id, pre |-> pre]
Origin(kind, src, f) == [kind |-> kind, src |-> src, f |-> f]
Sub(t, kind, tag) == [t |-> t, kind |-> kind, tag |-> tag]

Started(t) == \E i \in 1..Len(log) : log[i].e = "start" /\ log[i].t = t

Commit(w, op) ==
  /\ tasks' = w.tasks
  /\ log' = w.log
  /\ lastOp' = op
  /\ nops' = nops + 1

EmptyWorld == [tasks |-> <<>>, log |-> <<>>]

\* Future.make / Future.lazy: the start routine may resolve synchronously
\* (sync) and may return a cleanup routine.
make(lazy, sync, cleanup) ==
  Construct(EmptyWorld, PendingState(FALSE, lazy, UserExec(sync, cleanup)))

\* Future.makeFallible / Future.lazyFallible
makeFallible(lazy, sync, cleanup) ==
  Construct(EmptyWorld, PendingState(TRUE, lazy, UserExec(sync, cleanup)))

\* Future.value
value(v) ==
  Construct(EmptyWorld, CompletedState(PendingState(FALSE, FALSE, NoExec), Raw(v)))

\* Future.success / Future.fail
success(v) ==
  Construct(EmptyWorld, CompletedState(PendingState(TRUE, FALSE, NoExec), Ok(v)))

failure(v) ==
  Construct(EmptyWorld, CompletedState(PendingState(TRUE, FALSE, NoExec), Error(v)))

\* The futures a program can construct first.
Roots ==
  {[w |-> make(lazy, sync, cleanup), kind |-> "make"] :
     lazy \in BOOLEAN, sync \in {NoVal} \cup {Raw(v) : v \in Values}, cleanup \in BOOLEAN}
  \cup {[w |-> makeFallible(lazy, sync, cleanup), kind |-> "make"] :
     lazy \in BOOLEAN, cleanup \in BOOLEAN,
     sync \in {NoVal} \cup {Ok(v) : v \in Values} \cup {Error(v) : v \in Values}}
  \cup {[w |-> value(v), kind |-> "value"] : v \in Values}
  \cup {[w |-> success(v), kind |-> "value"] : v \in Values}
  \cup {[w |-> failure(v), kind |-> "value"] : v \in Values}

\* The state after the construction of one future; the actions are the calls
\* made on it and on the futures derived from it.
Init ==
  /\ \E r \in Roots :
       /\ tasks = r.w.tasks
       /\ log = r.w.log
       /\ origin = <<Origin(r.kind, 0, "-")>>
  /\ subs = <<>>
  /\ lastOp = Op("make", 1, NoVal, 0, "-")
  /\ nops = 0

\* The start routine of t calls the resolve it was given (possibly late,
\* possibly again).
SignalResolve(t, v) ==
  /\ nops < MaxOps
  /\ ~tasks[t].fallible /\ Started(t)
  /\ Commit(resolve(World, t, Raw(v)), Op("resolve", t, Raw(v), 0, tasks[t].tag))
  /\ UNCHANGED <<subs, origin>>

SignalSucceed(t, v) ==
  /\ nops < MaxOps
  /\ tasks[t].fallible /\ Started(t)
  /\ Commit(succeed(World, t, v), Op("resolve", t, Ok(v), 0, tasks[t].tag))
  /\ UNCHANGED <<subs, origin>>

SignalFail(t, v) ==
  /\ nops < MaxOps
  /\ tasks[t].fallible /\ Started(t)
  /\ Commit(fail(World, t, v), Op("resolve", t, Error(v), 0, tasks[t].tag))
  /\ UNCHANGED <<subs, origin>>

CallCancel(t) ==
  /\ nops < MaxOps
  /\ Commit(cancel(World, t), Op("cancel", t, NoVal, 0, tasks[t].tag))
  /\ UNCHANGED <<subs, origin>>

CallOnResolved(t) ==
  /\ nops < MaxOps /\ Len(subs) < MaxSubs
  /\ Commit(onResolved(World, t, UserCb(t, Len(subs) + 1)),
            Op("onResolved", t, NoVal, Len(subs) + 1, tasks[t].tag))
  /\ subs' = Append(subs, Sub(t, "res", tasks[t].tag))
  /\ UNCHANGED origin

CallOnCancelled(t) ==
  /\ nops < MaxOps /\ Len(subs) < MaxSubs
  /\ Commit(onCancelled(World, t, UserCb(t, Len(subs) + 1)),
            Op("onCancelled", t, NoVal, Len(subs) + 1, tasks[t].tag))
  /\ subs' = Append(subs, Sub(t, "can", tasks[t].tag))
  /\ UNCHANGED origin

\* Awaiting t: the then step with the awaiter's callback (then is private;
\* outside the constructors it is reached only through await). The awaiter
\* subscribes after the start routine has run, so the subscription is
\* recorded with the tag the future has then.
Await(t) ==
  /\ nops < MaxOps /\ Len(subs) < MaxSubs
  /\ Commit(then(World, t, Len(subs) + 1),
            Op("then", t, NoVal, Len(subs) + 1, tasks[t].tag))
  /\ subs' = Append(subs, Sub(t, "then", then(World, t, 0).tasks[t].tag))
  /\ UNCHANGED origin

CallMap(t, f) ==
  /\ nops < MaxOps /\ Len(tasks) < MaxTasks
  /\ Commit(IF tasks[t].fallible THEN fallibleMap(World, t, f) ELSE map(World, t, f),
            Op("map", t, NoVal, 0, tasks[t].tag))
  /\ origin' = Append(origin, Origin("map", t, f))
  /\ UNCHANGED subs

Next ==
  \/ \E t \in Ids, v \in Values : SignalResolve(t, v)
  \/ \E t \in Ids, v \in Values : SignalSucceed(t, v)
  \/ \E t \in Ids, v \in Values : SignalFail(t, v)
  \/ \E t \in Ids : CallCancel(t)
  \/ \E t \in Ids : CallOnResolved(t)
  \/ \E t \in Ids : CallOnCancelled(t)
  \/ \E t \in Ids : Await(t)
  \/ \E t \in Ids, f \in Fns : CallMap(t, f)

Spec == Init /\ [][Next]_vars
\* ---------------------------------------------------------------- tools
Suffix(old, new) == SubSeq(new, Len(old) + 1, Len(new))
Count(l, Test(_)) == Cardinality({i \in 1..Len(l) : Test(l[i])})
Terminal(tag) == tag \in {"completed", "cancelled"}

\* Number of invocations, in trace l, of subscriber / awaiter id.
Calls(l, id) == Count(l, LAMBDA ev : ev.e \in {"cb", "deliver"} /\ ev.id = id)
\* Number of invocations of the cleanup routine of t's start routine.
Cleanups(l, t) == Count(l, LAMBDA ev : ev.e = "cleanup" /\ ev.t = t)
\* Number of invocations of t's start routine.
Starts(l, t) == Count(l, LAMBDA ev : ev.e = "start" /\ ev.t = t)
\* The start routine of t ran and returned a cleanup routine.
ReturnedCleanup(l, t) ==
  \E i \in 1..Len(l) : l[i].e = "start" /\ l[i].t = t /\ l[i].opt = "cleanup"

\* The subscribers of the given kinds registered on t while it was pending,
\* in the order they subscribed.
SubIds == [i \in 1..Len(subs) |-> i]
PendingSubs(t, kinds) ==
  SelectSeq(SubIds, LAMBDA i : subs[i].t = t /\ subs[i].kind \in kinds
                               /\ subs[i].tag = "pending")

\* ---------------------------------------------------------------- C1
\* C1: the state of a future only moves pending -> completed or pending ->
\* cancelled: in every step, a future that is completed or cancelled keeps
\* its tag, and a completed future keeps its value.
C1_MonotonicState ==
  [][\A t \in Ids :
       Terminal(tasks[t].tag) =>
         /\ tasks'[t].tag = tasks[t].tag
         /\ tasks'[t].value = tasks[t].value]_vars

\* A completed future whose start routine signalled again, with another value.
C1_Witness ==
  /\ lastOp.op = "resolve"
  /\ lastOp.pre = "completed"
  /\ tasks[lastOp.t].value # lastOp.v

\* ---------------------------------------------------------------- C2
\* C2: a completion signal or a cancel() on a future that is already completed
\* or cancelled changes no future and invokes nothing; and no subscriber is
\* ever invoked more than once.
C2_TerminalNoOp ==
  /\ [](\A id \in 1..Len(subs) : Calls(log, id) <= 1)
  /\ [][(lastOp'.op \in {"resolve", "cancel"} /\ Terminal(lastOp'.pre)) =>
          (tasks' = tasks /\ log' = log)]_vars

\* A subscriber registered while pending has fired, and a late completion
\* signal then reached the terminal future.
C2_Witness ==
  /\ lastOp.op = "resolve"
  /\ Terminal(lastOp.pre)
  /\ \E id \in 1..Len(subs) :
       subs[id].t = lastOp.t /\ subs[id].tag = "pending" /\ Calls(log, id) = 1

\* ---------------------------------------------------------------- C3
\* C3: a cancel() that directly follows a cancel() of the same pending future
\* changes nothing (same futures, same trace), and after both calls the
\* cleanup routine (if the start routine returned one) and every
\* cancel-subscriber registered while pending have run exactly once.
C3_CancelIdempotent ==
  [][(/\ lastOp.op = "cancel" /\ lastOp.pre = "pending"
      /\ lastOp'.op = "cancel" /\ lastOp'.t = lastOp.t) =>
       /\ tasks' = tasks
       /\ log' = log
       /\ Cleanups(log', lastOp.t) = (IF ReturnedCleanup(log', lastOp.t) THEN 1 ELSE 0)
       /\ \A i \in 1..Len(PendingSubs(lastOp.t, {"can", "then"})) :
            Calls(log', PendingSubs(lastOp.t, {"can", "then"})[i]) = 1]_vars

\* The second of two cancel() calls on a future with a cleanup routine and a
\* cancel-subscriber.
C3_Witness ==
  /\ lastOp.op = "cancel"
  /\ lastOp.pre = "cancelled"
  /\ Cleanups(log, lastOp.t) = 1
  /\ PendingSubs(lastOp.t, {"can"}) # <<>>
\* ---------------------------------------------------------------- C4
\* The invocations a trace holds for future t: its cleanup routine, its
\* subscribers and its awaiters.
OwnEvents(l, t) ==
  SelectSeq(l, LAMBDA ev : ev.t = t /\ ev.e \in {"cleanup", "cb", "deliver"})

\* C4: in every step that takes a future from pending to cancelled, the
\* invocations made for it are, in this order: its cleanup routine once (if
\* its start routine returned one), then each cancel-subscriber registered
\* while pending once, in subscription order; and each of them already sees
\* the state cancelled.
C4_CancelOrder ==
  [][\A t \in Ids :
       (tasks[t].tag = "pending" /\ tasks'[t].tag = "cancelled") =>
         LET evs == OwnEvents(Suffix(log, log'), t)
             ids == PendingSubs(t, {"can", "then"})
             k == IF ReturnedCleanup(log, t) THEN 1 ELSE 0
         IN  /\ Len(evs) = k + Len(ids)
             /\ k = 1 => evs[1].e = "cleanup"
             /\ \A i \in 1..Len(ids) :
                  evs[k + i].e \in {"cb", "deliver"} /\ evs[k + i].id = ids[i]
             /\ \A i \in 1..Len(evs) : evs[i].tag = "cancelled"]_vars

\* A cancelled future whose cleanup routine ran and that had two
\* cancel-subscribers.
C4_Witness ==
  \E t \in Ids :
    /\ tasks[t].tag = "cancelled"
    /\ Cleanups(log, t) = 1
    /\ Len(PendingSubs(t, {"can"})) >= 2

\* ---------------------------------------------------------------- C5
\* C5: in every step that takes a future from pending to completed, the
\* resolved-subscribers registered while pending (onResolved and awaiters) are
\* each invoked once, in subscription order, with the resolved value, and
\* no other subscriber registered before the step is invoked for that future.
C5_ResolveOrder ==
  [][\A t \in Ids :
       (tasks[t].tag = "pending" /\ tasks'[t].tag = "completed") =>
         LET evs == SelectSeq(OwnEvents(Suffix(log, log'), t),
                              LAMBDA ev : ev.id <= Len(subs))
             ids == PendingSubs(t, {"res", "then"})
         IN  /\ Len(evs) = Len(ids)
             /\ \A i \in 1..Len(ids) :
                  /\ evs[i].id = ids[i]
                  /\ evs[i].arg = tasks'[t].value
                  /\ evs[i].e = (IF subs[ids[i]].kind = "then" THEN "deliver" ELSE "cb")
                  /\ evs[i].opt = (IF subs[ids[i]].kind = "then" THEN "Some" ELSE "-")]_vars

\* A completed future with two resolved-subscribers registered while pending.
C5_Witness ==
  \E t \in Ids :
    /\ tasks[t].tag = "completed"
    /\ Len(PendingSubs(t, {"res"})) >= 2
    /\ \A i \in 1..Len(PendingSubs(t, {"res"})) : Calls(log, PendingSubs(t, {"res"})[i]) = 1

\* ---------------------------------------------------------------- C6
\* The subscribers registered on t when it already had the given tag.
LateSubs(kind, tag) ==
  {i \in 1..Len(subs) : subs[i].kind = kind /\ subs[i].tag = tag}

\* C6: onResolved on a completed future and onCancelled on a cancelled future
\* invoke the callback once, within the call, with the stored value, and
\* record nothing; onResolved on a cancelled future and onCancelled on a
\* completed one invoke nothing, then or later.
C6_SubscribeTerminal ==
  /\ [](/\ \A i \in LateSubs("res", "completed") \cup LateSubs("can", "cancelled") :
             Calls(log, i) = 1
        /\ \A i \in LateSubs("res", "cancelled") \cup LateSubs("can", "completed") :
             Calls(log, i) = 0)
  /\ [][(lastOp'.op \in {"onResolved", "onCancelled"} /\ Terminal(lastOp'.pre)) =>
          /\ tasks' = tasks
          /\ log' = IF lastOp'.op = "onResolved" /\ lastOp'.pre = "completed"
                    THEN Append(log, [e |-> "cb", id |-> lastOp'.id, t |-> lastOp'.t,
                                      arg |-> tasks[lastOp'.t].value, opt |-> "-",
                                      tag |-> "completed"])
                    ELSE IF lastOp'.op = "onCancelled" /\ lastOp'.pre = "cancelled"
                    THEN Append(log, [e |-> "cb", id |-> lastOp'.id, t |-> lastOp'.t,
                                      arg |-> NoVal, opt |-> "-", tag |-> "cancelled"])
                    ELSE log]_vars

\* A matching and a mismatching subscription have both been made on a
\* terminal future.
C6_Witness ==
  /\ LateSubs("res", "completed") \cup LateSubs("can", "cancelled") # {}
  /\ LateSubs("res", "cancelled") \cup LateSubs("can", "completed") # {}
\* ---------------------------------------------------------------- C7
\* The futures built by Future.make / makeFallible, lazily or not.
Made(lazy) == {t \in Ids : origin[t].kind = "make" /\ tasks[t].lazy = lazy}
\* The awaiters of t so far.
Awaiters(t) == {i \in 1..Len(subs) : subs[i].kind = "then" /\ subs[i].t = t}

\* C7: a start routine is invoked at most once; the start routine of an eager
\* future has been invoked once when construction returns; that of a lazy
\* future is not invoked before a then step, is invoked by a then step that
\* finds the future pending, and is invoked by no then step but the first.
C7_StartOnce ==
  /\ [](/\ \A t \in Ids : Starts(log, t) <= 1
        /\ \A t \in Made(FALSE) : Starts(log, t) = 1
        /\ \A t \in Made(TRUE) : Awaiters(t) = {} => Starts(log, t) = 0)
  /\ [][\A t \in Made(TRUE) :
          /\ Starts(log', t) > Starts(log, t) =>
               (lastOp'.op = "then" /\ lastOp'.t = t /\ Awaiters(t) = {})
          /\ (lastOp'.op = "then" /\ lastOp'.t = t /\ tasks[t].tag = "pending") =>
               Starts(log', t) = 1]_vars

\* A lazy future awaited twice, whose start routine has run.
C7_Witness ==
  \E t \in Made(TRUE) : Cardinality(Awaiters(t)) >= 2 /\ Starts(log, t) = 1

\* ---------------------------------------------------------------- C8
\* The futures derived by map.
Mapped == {t \in Ids : origin[t].kind = "map"}

\* C8: for t = a.map(f) with a and t both pending, a cancel() of t and a
\* cancel() of a each leave both cancelled; and once both are cancelled they
\* stay cancelled.
C8_MapCancelBothWays ==
  [][\A t \in Mapped :
       LET a == origin[t].src
       IN  /\ (/\ tasks[t].tag = "pending" /\ tasks[a].tag = "pending"
               /\ lastOp'.op = "cancel" /\ lastOp'.t \in {t, a}) =>
                (tasks'[t].tag = "cancelled" /\ tasks'[a].tag = "cancelled")
           /\ (tasks[t].tag = "cancelled" /\ tasks[a].tag = "cancelled") =>
                (tasks'[t].tag = "cancelled" /\ tasks'[a].tag = "cancelled")]_vars

\* The source of a pending derived future was cancelled.
C8_Witness ==
  \E t \in Mapped :
    /\ lastOp.op = "cancel" /\ lastOp.t = origin[t].src /\ lastOp.pre = "pending"
    /\ tasks[t].tag = "cancelled"

\* The derived future of a pending source was cancelled.
C8_WitnessDerived ==
  \E t \in Mapped :
    /\ lastOp.op = "cancel" /\ lastOp.t = t /\ lastOp.pre = "pending"
    /\ tasks[origin[t].src].tag = "cancelled"

\* ---------------------------------------------------------------- C9
\* The values delivered to awaiter i, in order.
Delivered(i) == SelectSeq(log, LAMBDA ev : ev.e = "deliver" /\ ev.id = i)

\* C9: an awaiter has received nothing while the future is pending; once the
\* future is completed it has received exactly Some(value), once; once the
\* future is cancelled it has received exactly None, once.
C9_AwaitOnce ==
  \A i \in 1..Len(subs) :
    subs[i].kind = "then" =>
      LET t == subs[i].t
          got == Delivered(i)
      IN  CASE tasks[t].tag = "pending" -> got = <<>>
            [] tasks[t].tag = "completed" ->
                 Len(got) = 1 /\ got[1].opt = "Some" /\ got[1].arg = tasks[t].value
            [] tasks[t].tag = "cancelled" ->
                 Len(got) = 1 /\ got[1].opt = "None"

\* Two awaiters, one before and one after the future was cancelled.
C9_Witness ==
  \E i, j \in 1..Len(subs) :
    /\ subs[i].kind = "then" /\ subs[j].kind = "then" /\ subs[i].t = subs[j].t
    /\ subs[i].tag = "pending" /\ subs[j].tag = "cancelled"

\* ---------------------------------------------------------------- C10
\* The invocations of the function given to the map that made t.
FnCalls(t) == SelectSeq(log, LAMBDA ev : ev.e = "fn" /\ ev.t = t)

\* C10: for t = a.map(fn) on a plain future: while a is pending fn has not
\* been invoked; once a is completed with v, t is completed with fn(v) and fn
\* has been invoked once, with v; once a is cancelled, t is cancelled and fn
\* has not been invoked.
C10_Map ==
  \A t \in Mapped :
    ~tasks[t].fallible =>
      LET a == origin[t].src
      IN  CASE tasks[a].tag = "pending" ->
                 tasks[t].tag = "pending" /\ FnCalls(t) = <<>>
            [] tasks[a].tag = "completed" ->
                 /\ tasks[t].tag = "completed"
                 /\ tasks[t].value = Raw(Apply(origin[t].f, tasks[a].value.v))
                 /\ Len(FnCalls(t)) = 1
                 /\ FnCalls(t)[1].arg = tasks[a].value
            [] tasks[a].tag = "cancelled" ->
                 tasks[t].tag = "cancelled" /\ FnCalls(t) = <<>>

\* A plain source resolved after map was called on it.
C10_Witness ==
  \E t \in Mapped :
    /\ ~tasks[t].fallible
    /\ lastOp.op = "resolve" /\ lastOp.t = origin[t].src /\ lastOp.pre = "pending"
    /\ tasks[t].tag = "completed"

\* ================================================================ chains
\* The combinators of __FallibleFuture: one fallible future and the futures
\* derived from it by map, mapError, andThen and orElse. The continuation
\* futures made inside andThen / orElse join the heap when the continuation
\* function runs.

\* The "fn" events of the continuation that made future c.
MadeBy(l, c) == SelectSeq(l, LAMBDA ev : ev.e = "fn" /\ ev.id = c)

\* origin after a call that left world w: `made` describes the future the
\* call itself constructed (if any); every other new future is a
\* continuation, described by the combinator future that called for it.
Grow(w, made) ==
  [c \in 1..Len(w.tasks) |->
     IF c <= Len(origin) THEN origin[c]
     ELSE IF c <= Len(origin) + Len(made) THEN made[c - Len(origin)]
     ELSE Origin("next", MadeBy(w.log, c)[1].t, MadeBy(w.log, c)[1].opt)]

ChainCommit(w, op, made) ==
  /\ Commit(w, op)
  /\ origin' = Grow(w, made)
  /\ UNCHANGED subs

\* Futures whose continuation may still be made.
Reserved ==
  Cardinality({t \in Ids : /\ origin[t].kind \in {"andThen", "orElse"}
                           /\ tasks[origin[t].src].tag = "pending"})
Room(n) == Len(tasks) + Reserved + n <= MaxTasks

ChainRoots == {r \in Roots : r.w.tasks[1].fallible /\ ~r.w.tasks[1].lazy}

ChainInit ==
  /\ \E r \in ChainRoots :
       /\ tasks = r.w.tasks
       /\ log = r.w.log
       /\ origin = <<Origin(r.kind, 0, "-")>>
  /\ subs = <<>>
  /\ lastOp = Op("make", 1, NoVal, 0, "-")
  /\ nops = 0

ChainSucceed(t, v) ==
  /\ nops < MaxOps
  /\ Started(t)
  /\ ChainCommit(succeed(World, t, v), Op("resolve", t, Ok(v), 0, tasks[t].tag), <<>>)

ChainFail(t, v) ==
  /\ nops < MaxOps
  /\ Started(t)
  /\ ChainCommit(fail(World, t, v), Op("resolve", t, Error(v), 0, tasks[t].tag), <<>>)

ChainCancel(t) ==
  /\ nops < MaxOps
  /\ ChainCommit(cancel(World, t), Op("cancel", t, NoVal, 0, tasks[t].tag), <<>>)

ChainMap(t, f) ==
  /\ nops < MaxOps /\ Room(1)
  /\ ChainCommit(fallibleMap(World, t, f), Op("map", t, NoVal, 0, tasks[t].tag),
                 <<Origin("map", t, f)>>)

ChainMapError(t, f) ==
  /\ nops < MaxOps /\ Room(1)
  /\ ChainCommit(mapError(World, t, f), Op("mapError", t, NoVal, 0, tasks[t].tag),
                 <<Origin("mapError", t, f)>>)

ChainAndThen(t, g) ==
  /\ nops < MaxOps /\ Room(2)
  /\ ChainCommit(andThen(World, t, g), Op("andThen", t, NoVal, 0, tasks[t].tag),
                 <<Origin("andThen", t, g)>>)

ChainOrElse(t, g) ==
  /\ nops < MaxOps /\ Room(2)
  /\ ChainCommit(orElse(World, t, g), Op("orElse", t, NoVal, 0, tasks[t].tag),
                 <<Origin("orElse", t, g)>>)

ChainNext ==
  \/ \E t \in Ids, v \in Values : ChainSucceed(t, v)
  \/ \E t \in Ids, v \in Values : ChainFail(t, v)
  \/ \E t \in Ids : ChainCancel(t)
  \/ \E t \in Ids, f \in Fns : ChainMap(t, f)
  \/ \E t \in Ids, f \in Fns : ChainMapError(t, f)
  \/ \E t \in Ids, g \in Continuations : ChainAndThen(t, g)
  \/ \E t \in Ids, g \in Continuations : ChainOrElse(t, g)

ChainSpec == ChainInit /\ [][ChainNext]_vars

\* ---------------------------------------------------------------- C11
\* The futures made by map (kind "map") or mapError of a fallible future.
VariantMapped == {t \in Ids : origin[t].kind \in {"map", "mapError"} /\ tasks[t].fallible}

\* C11: for t = a.map(fn) on a fallible future, once a is completed with
\* Ok(v), t is completed with Ok(fn(v)) and fn has been invoked once, with
\* v; once a is completed with Error(e), t is completed with the same
\* Error(e) and fn has not been invoked. For t = a.mapError(fn) the same with
\* the variants exchanged. In every other state of a (pending, cancelled) fn
\* has not been invoked.
C11_VariantMap ==
  \A t \in VariantMapped :
    LET a == origin[t].src
        on == IF origin[t].kind = "map" THEN "Ok" ELSE "Error"
        r == tasks[a].value
    IN  CASE tasks[a].tag = "completed" /\ r.tag = on ->
               /\ tasks[t].tag = "completed"
               /\ tasks[t].value = [tag |-> on, v |-> Apply(origin[t].f, r.v)]
               /\ Len(FnCalls(t)) = 1
               /\ FnCalls(t)[1].arg = r
          [] tasks[a].tag = "completed" /\ r.tag # on ->
               /\ tasks[t].tag = "completed"
               /\ tasks[t].value = r
               /\ FnCalls(t) = <<>>
          [] OTHER -> FnCalls(t) = <<>>

\* A pending source with a map and a mapError future has just failed: the
\* map future forwarded the Error, the mapError future applied its function.
C11_Witness ==
  /\ lastOp.op = "resolve" /\ lastOp.pre = "pending" /\ lastOp.v.tag = "Error"
  /\ \E t, u \in VariantMapped :
       /\ origin[t].kind = "map" /\ origin[t].src = lastOp.t
       /\ origin[u].kind = "mapError" /\ origin[u].src = lastOp.t
       /\ tasks[t].value = lastOp.v
       /\ tasks[u].value = Error(Apply(origin[u].f, lastOp.v.v))

\* ---------------------------------------------------------------- C12
\* The futures made by the given combinator.
MadeWith(kind) == {t \in Ids : origin[t].kind = kind}

\* What a continuation function that returns a Result returns on payload v.
Returned(g, v) == [tag |-> g, v |-> Apply("dbl", v)]

\* C12: for t = a.andThen(fn): once a is completed with Error(e), t is
\* completed with Error(e) and fn has not been invoked; once a is completed
\* with Ok(v), fn has been invoked exactly once, with v, its result is a
\* fallible future c (completed with the Result when fn returned one), and
\* unless t was cancelled meanwhile t is completed exactly when c is, with
\* the value of c; while a is pending or cancelled fn has not been invoked.
C12_AndThen ==
  \A t \in MadeWith("andThen") :
    LET a == origin[t].src
        r == tasks[a].value
        calls == FnCalls(t)
    IN  CASE tasks[a].tag = "completed" /\ r.tag = "Error" ->
               tasks[t].tag = "completed" /\ tasks[t].value = r /\ calls = <<>>
          [] tasks[a].tag = "completed" /\ r.tag = "Ok" ->
               /\ Len(calls) = 1
               /\ calls[1].arg = r
               /\ LET c == calls[1].id
                  IN  /\ c \in Ids /\ tasks[c].fallible
                      /\ origin[t].f \in {"Ok", "Error"} =>
                           /\ tasks[c].tag = "completed"
                           /\ tasks[c].value = Returned(origin[t].f, r.v)
                      /\ tasks[t].tag # "cancelled" =>
                           /\ tasks[t].tag = tasks[c].tag \/ tasks[c].tag = "cancelled"
                           /\ tasks[t].value = tasks[c].value
          [] OTHER -> calls = <<>>

\* The continuation future of an andThen has just failed, after the source
\* succeeded, and the andThen future carries that failure.
C12_Witness ==
  /\ lastOp.op = "resolve" /\ lastOp.pre = "pending" /\ lastOp.v.tag = "Error"
  /\ origin[lastOp.t].kind = "next"
  /\ origin[origin[lastOp.t].src].kind = "andThen"
  /\ tasks[origin[lastOp.t].src].value = lastOp.v

\* ---------------------------------------------------------------- C13
\* The continuation future of combinator future t (fn has been invoked).
Continuation(t) == FnCalls(t)[1].id

\* C13: for t = src.andThen(fn): when src is cancelled, t is cancelled; and
\* once src has succeeded and fn has made the continuation future c, t is
\* cancelled exactly when c is (a cancel of t while c is pending cancels c, a
\* cancel of c while pending cancels t).
C13_AndThenCancel ==
  \A t \in MadeWith("andThen") :
    LET src == origin[t].src
    IN  /\ tasks[src].tag = "cancelled" => tasks[t].tag = "cancelled"
        /\ (tasks[src].tag = "completed" /\ tasks[src].value.tag = "Ok") =>
             (tasks[t].tag = "cancelled" <=> tasks[Continuation(t)].tag = "cancelled")

\* ---------------------------------------------------------------- C14
\* C14: for t = a.orElse(fn): once a is completed with Ok(v), t is completed
\* with Ok(v) and fn has not been invoked; once a is completed with Error(e),
\* fn has been invoked exactly once, with e, its result is a fallible future c
\* (completed with the Result when fn returned one), and unless t was
\* cancelled meanwhile t is completed exactly when c is, with the value of c;
\* once a is cancelled, t is cancelled and fn has not been invoked; while a
\* is pending fn has not been invoked.
C14_OrElse ==
  \A t \in MadeWith("orElse") :
    LET a == origin[t].src
        r == tasks[a].value
        calls == FnCalls(t)
    IN  CASE tasks[a].tag = "completed" /\ r.tag = "Ok" ->
               tasks[t].tag = "completed" /\ tasks[t].value = r /\ calls = <<>>
          [] tasks[a].tag = "completed" /\ r.tag = "Error" ->
               /\ Len(calls) = 1
               /\ calls[1].arg = r
               /\ LET c == calls[1].id
                  IN  /\ c \in Ids /\ tasks[c].fallible
                      /\ origin[t].f \in {"Ok", "Error"} =>
                           /\ tasks[c].tag = "completed"
                           /\ tasks[c].value = Returned(origin[t].f, r.v)
                      /\ tasks[t].tag # "cancelled" =>
                           /\ tasks[t].tag = tasks[c].tag \/ tasks[c].tag = "cancelled"
                           /\ tasks[t].value = tasks[c].value
          [] tasks[a].tag = "cancelled" ->
               tasks[t].tag = "cancelled" /\ calls = <<>>
          [] OTHER -> calls = <<>>

\* The continuation future of an orElse has just succeeded, after the source
\* failed, and the orElse future carries that success.
C14_Witness ==
  /\ lastOp.op = "resolve" /\ lastOp.pre = "pending" /\ lastOp.v.tag = "Ok"
  /\ origin[lastOp.t].kind = "next"
  /\ origin[origin[lastOp.t].src].kind = "orElse"
  /\ tasks[origin[lastOp.t].src].value = lastOp.v

\* ================================================================ aggregates
\* Future.all and Future.allFromDict: the futures 1..n made first are the
\* elements, given in this order (under the property names Keys[1..n] for
\* allFromDict) to one call of all or allFromDict, made at any moment of
\* their lives.

\* The heap after making one pending future per entry of fallibles.
RECURSIVE Elements(_)
Elements(fallibles) ==
  IF fallibles = <<>> THEN EmptyWorld
  ELSE Construct(Elements(SubSeq(fallibles, 1, Len(fallibles) - 1)),
                 PendingState(fallibles[Len(fallibles)], FALSE, UserExec(NoVal, FALSE)))

AllInit ==
  /\ \E n \in 0..MaxElems : \E fallibles \in [1..n -> BOOLEAN] :
       /\ tasks = Elements(fallibles).tasks
       /\ log = Elements(fallibles).log
       /\ origin = [i \in 1..n |-> Origin("make", 0, "-")]
  /\ subs = <<>>
  /\ lastOp = Op("make", 1, NoVal, 0, "-")
  /\ nops = 0

\* The elements, the array made of them, and the aggregates made so far.
Elems == {t \in Ids : origin[t].kind = "make"}
Array == [i \in 1..Cardinality(Elems) |-> i]
Aggregates == {t \in Ids : origin[t].kind \in {"all", "allFromDict"}}

AllCommit(w, op) ==
  /\ Commit(w, op)
  /\ UNCHANGED <<subs, origin>>

AllResolve(t, v) ==
  /\ nops < MaxOps
  /\ ~tasks[t].fallible /\ Started(t)
  /\ AllCommit(resolve(World, t, Raw(v)), Op("resolve", t, Raw(v), 0, tasks[t].tag))

AllSucceed(t, v) ==
  /\ nops < MaxOps
  /\ tasks[t].fallible /\ Started(t)
  /\ AllCommit(succeed(World, t, v), Op("resolve", t, Ok(v), 0, tasks[t].tag))

AllFail(t, v) ==
  /\ nops < MaxOps
  /\ tasks[t].fallible /\ Started(t)
  /\ AllCommit(fail(World, t, v), Op("resolve", t, Error(v), 0, tasks[t].tag))

AllCancel(t) ==
  /\ nops < MaxOps
  /\ AllCommit(cancel(World, t), Op("cancel", t, NoVal, 0, tasks[t].tag))

\* origin after the call: the aggregate, then one promoted future per plain
\* element when some element is fallible.
Gathered(kind) ==
  LET plain == SelectSeq(Array, LAMBDA t : ~tasks[t].fallible)
      mixed == \E t \in Elems : tasks[t].fallible
  IN  origin \o <<Origin(kind, 0, "-")>>
        \o (IF mixed THEN [j \in 1..Len(plain) |-> Origin("neverError", plain[j], "-")]
            ELSE <<>>)

CallAll ==
  /\ nops < MaxOps /\ Aggregates = {}
  /\ Commit(all(World, Array), Op("all", Len(tasks) + 1, NoVal, 0, "-"))
  /\ origin' = Gathered("all")
  /\ UNCHANGED subs

CallAllFromDict ==
  /\ nops < MaxOps /\ Aggregates = {}
  /\ Commit(allFromDict(World, Array), Op("allFromDict", Len(tasks) + 1, NoVal, 0, "-"))
  /\ origin' = Gathered("allFromDict")
  /\ UNCHANGED subs

AllNext ==
  \/ \E t \in Ids, v \in Values : AllResolve(t, v)
  \/ \E t \in Ids, v \in Values : AllSucceed(t, v)
  \/ \E t \in Ids, v \in Values : AllFail(t, v)
  \/ \E t \in Ids : AllCancel(t)
  \/ CallAll
  \/ CallAllFromDict

AllSpec == AllInit /\ [][AllNext]_vars

\* ---------------------------------------------------------------- C15
\* The values the elements are completed with, in the order of the array.
ElementValues == [i \in 1..Len(Array) |-> tasks[Array[i]].value]

\* C15: for an aggregate made by all over plain futures: when the aggregate
\* is completed, every element is completed and the aggregate's value is the
\* array whose i-th entry is the value of the i-th element.
C15_AllPlain ==
  \A t \in Aggregates :
    (origin[t].kind = "all" /\ ~tasks[t].fallible /\ tasks[t].tag = "completed") =>
      /\ \A i \in 1..Len(Array) : tasks[Array[i]].tag = "completed"
      /\ tasks[t].value = Raw([i \in 1..Len(Array) |-> ElementValues[i].v])

\* A completed aggregate over two plain futures of which the second resolved
\* first, with another value than the first.
C15_Witness ==
  \E t \in Aggregates :
    /\ origin[t].kind = "all" /\ ~tasks[t].fallible /\ tasks[t].tag = "completed"
    /\ Len(Array) >= 2
    /\ Slots(log, t)[1].id = 2
    /\ ElementValues[1] # ElementValues[2]

\* ---------------------------------------------------------------- C16
\* C16: for an aggregate made by all (either branch): once the aggregate is
\* cancelled no element is pending, and once any element is cancelled the
\* aggregate is cancelled (hence no sibling is pending either).
C16_AllCancel ==
  \A t \in Aggregates :
    origin[t].kind = "all" =>
      /\ tasks[t].tag = "cancelled" => \A e \in Elems : tasks[e].tag # "pending"
      /\ (\E e \in Elems : tasks[e].tag = "cancelled") =>
           /\ tasks[t].tag = "cancelled"
           /\ \A e \in Elems : tasks[e].tag # "pending"

\* all was called on two pending futures and one of them was then cancelled:
\* the aggregate and the sibling are cancelled.
C16_Witness ==
  /\ nops = 2
  /\ lastOp.op = "cancel" /\ lastOp.pre = "pending" /\ lastOp.t \in Elems
  /\ Len(Array) >= 2
  /\ \E t \in Aggregates : origin[t].kind = "all" /\ tasks[t].tag = "cancelled"
  /\ \A e \in Elems : tasks[e].tag = "cancelled"

\* ---------------------------------------------------------------- C17
\* The outcome of element i: its Result, or Ok of its value for a plain one.
Outcome(i) == IF tasks[Array[i]].fallible THEN ElementValues[i] ELSE Ok(ElementValues[i].v)
Failed == {i \in 1..Len(Array) : Outcome(i).tag = "Error"}
\* Ok of the payloads in input order, or the Error of the lowest failed index.
Combined ==
  IF Failed = {} THEN Ok([i \in 1..Len(Array) |-> Outcome(i).v])
  ELSE Outcome(CHOOSE i \in Failed : \A j \in Failed : i <= j)

C18_FailureKeepsSiblings ==
  /\ [](\A t \in Aggregates :
          (origin[t].kind = "all" /\ tasks[t].fallible
           /\ \E e \in Elems : tasks[e].tag = "pending") => tasks[t].tag # "completed")
  /\ [][\A t \in Aggregates :
          (/\ origin[t].kind = "all" /\ tasks[t].fallible
           /\ lastOp'.op = "resolve" /\ lastOp'.v.tag = "Error") =>
            LET siblings == {e \in Elems : e # lastOp'.t /\ tasks[e].tag = "pending"}
            IN  /\ \A e \in siblings : tasks'[e].tag = "pending"
                /\ (siblings # {} /\ tasks[t].tag = "pending") => tasks'[t].tag = "pending"]_vars

\* An element of a pending fallible aggregate has just failed while a
\* sibling is pending: sibling and aggregate are still pending.
C18_Witness ==
  /\ lastOp.op = "resolve" /\ lastOp.pre = "pending" /\ lastOp.v.tag = "Error"
  /\ lastOp.t \in Elems
  /\ \E t \in Aggregates :
       /\ origin[t].kind = "all" /\ tasks[t].fallible /\ tasks[t].tag = "pending"
       /\ tasks[lastOp.t].value = lastOp.v
       /\ \E e \in Elems : e # lastOp.t /\ tasks[e].tag = "pending"

\* ---------------------------------------------------------------- C19
\* An object as a mapping: its set of <<key, value>> entries.
Entries(obj) == {obj[j] : j \in 1..Len(obj)}
\* The mapping from each given key to the payload its future resolved with.
KeyedPayloads == {<<Keys[i], Outcome(i).v>> : i \in 1..Len(Array)}

\* C19: for an aggregate made by allFromDict: when the aggregate is
\* completed every future of the mapping is completed; over plain futures
\* its value is the mapping from each given key to that future's value; with
\* a fallible future among them its value is Ok of that mapping of payloads
\* if all succeeded, else the Error of the failed future whose key comes
\* first in the key order of the given mapping.
C19_AllFromDict ==
  \A t \in Aggregates :
    (origin[t].kind = "allFromDict" /\ tasks[t].tag = "completed") =>
      /\ \A e \in Elems : tasks[e].tag = "completed"
      /\ IF tasks[t].fallible /\ Failed # {}
         THEN tasks[t].value = Outcome(CHOOSE i \in Failed : \A j \in Failed : i <= j)
         ELSE /\ tasks[t].value.tag = (IF tasks[t].fallible THEN "Ok" ELSE "raw")
              /\ Len(tasks[t].value.v) = Len(Array)
              /\ Entries(tasks[t].value.v) = KeyedPayloads

\* ================================================================ unwrapping
\* One plain future, the unwrapped futures made from it by unwrap and
\* unwrapOr(OrValue), and the awaits and cancels of those.

UnwrapInit ==
  /\ \E r \in {q \in Roots : ~q.w.tasks[1].fallible} :
       /\ tasks = r.w.tasks
       /\ log = r.w.log
       /\ origin = <<Origin(r.kind, 0, "-")>>
  /\ subs = <<>>
  /\ lastOp = Op("make", 1, NoVal, 0, "-")
  /\ nops = 0

UnwrappedIds == {t \in Ids : origin[t].kind \in {"unwrap", "unwrapOr", "unwrapOrElse", "match"}}
Sources == Ids \ UnwrappedIds

CallUnwrap(t) ==
  /\ nops < MaxOps /\ Len(tasks) < MaxTasks
  /\ Commit(unwrap(World, t), Op("unwrap", t, NoVal, 0, tasks[t].tag))
  /\ origin' = Append(origin, Origin("unwrap", t, "-"))
  /\ UNCHANGED subs

CallUnwrapOr(t) ==
  /\ nops < MaxOps /\ Len(tasks) < MaxTasks
  /\ Commit(unwrapOr(World, t), Op("unwrapOr", t, NoVal, 0, tasks[t].tag))
  /\ origin' = Append(origin, Origin("unwrapOr", t, "-"))
  /\ UNCHANGED subs

CallUnwrapOrElse(t) ==
  /\ nops < MaxOps /\ Len(tasks) < MaxTasks
  /\ Commit(unwrapOrElse(World, t), Op("unwrapOrElse", t, NoVal, 0, tasks[t].tag))
  /\ origin' = Append(origin, Origin("unwrapOrElse", t, "-"))
  /\ UNCHANGED subs

\* await u: the then of the unwrapped future with the two callbacks of the
\* awaiting promise.
AwaitUnwrapped(u) ==
  /\ nops < MaxOps /\ Len(subs) < MaxSubs
  /\ Commit(unwrappedThen(World, u, Len(subs) + 1),
            Op("await", u, NoVal, Len(subs) + 1, tasks[u].tag))
  /\ subs' = Append(subs, Sub(u, "await", tasks[u].tag))
  /\ UNCHANGED origin

CancelUnwrapped(u) ==
  /\ nops < MaxOps
  /\ Commit(unwrappedCancel(World, u), Op("cancel", u, NoVal, 0, tasks[u].tag))
  /\ UNCHANGED <<subs, origin>>

\* u.onCancelled(cb) with a callback of the caller.
OnCancelledUnwrapped(u) ==
  /\ nops < MaxOps /\ Len(subs) < MaxSubs
  /\ Commit(unwrappedOnCancelled(World, u, UserCb(u, Len(subs) + 1)),
            Op("onCancelled", u, NoVal, Len(subs) + 1, tasks[u].tag))
  /\ subs' = Append(subs, Sub(u, "can", tasks[u].tag))
  /\ UNCHANGED origin

UnwrapNext ==
  \/ \E t \in Sources, v \in Values : SignalResolve(t, v)
  \/ \E t \in Sources : CallCancel(t)
  \/ \E t \in Sources : Await(t)
  \/ \E t \in Sources : CallUnwrap(t)
  \/ \E t \in Sources : CallUnwrapOr(t)
  \/ \E t \in Sources : CallUnwrapOrElse(t)
  \/ \E u \in UnwrappedIds : AwaitUnwrapped(u)
  \/ \E u \in UnwrappedIds : CancelUnwrapped(u)
  \/ \E u \in UnwrappedIds : OnCancelledUnwrapped(u)

UnwrapSpec == UnwrapInit /\ [][UnwrapNext]_vars

\* ---------------------------------------------------------------- C20
\* The awaits made on unwrapped future u.
AwaitsOf(u) == {i \in 1..Len(subs) : subs[i].kind = "await" /\ subs[i].t = u}

\* C20: once the source of u = a.unwrap() is cancelled, whether it was
\* cancelled before the call or afterwards, u is not completed and every
\* await of u has been handed an error (exactly one, and no value); once the
\* source of u = a.unwrapOr(v) is cancelled, u is completed with v and every
\* await of u has been handed v.
C20_UnwrapOnCancel ==
  \A u \in UnwrappedIds :
    tasks[origin[u].src].tag = "cancelled" =>
      IF origin[u].kind = "unwrap"
      THEN /\ tasks[u].tag # "completed"
           /\ \A i \in AwaitsOf(u) :
                /\ Len(Delivered(i)) = 1
                /\ Delivered(i)[1].opt = "throw"
      ELSE /\ tasks[u].tag = "completed"
           /\ tasks[u].value = Raw(OrValue)
           /\ \A i \in AwaitsOf(u) :
                /\ Len(Delivered(i)) = 1
                /\ Delivered(i)[1].opt = "value"
                /\ Delivered(i)[1].arg = Raw(OrValue)
\* ---------------------------------------------------------------- C21
\* The unwrapped futures made with a fallback.
WithFallback == {u \in UnwrappedIds : origin[u].kind \in {"unwrapOr", "unwrapOrElse"}}

\* C21: an unwrapped future made by unwrapOr(v) or unwrapOrElse(fn) is never
\* cancelled: a cancel() that finds it pending leaves it completed with the
\* fallback, no await of it is ever handed an error, and once it is completed
\* every await of it has been handed its value, once.
C21_CancelFallback ==
  \A u \in WithFallback :
    /\ tasks[u].tag # "cancelled"
    /\ (lastOp.op = "cancel" /\ lastOp.t = u /\ lastOp.pre = "pending") =>
         /\ tasks[u].tag = "completed"
         /\ tasks[u].value = Raw(OrValue)
    /\ \A i \in AwaitsOf(u) :
         /\ \A k \in 1..Len(Delivered(i)) : Delivered(i)[k].opt = "value"
         /\ tasks[u].tag = "completed" =>
              /\ Len(Delivered(i)) = 1
              /\ Delivered(i)[1].arg = tasks[u].value

\* A pending unwrapOrElse future with an awaiter has just been cancelled and
\* the awaiter has the fallback.
C21_Witness ==
  \E u \in WithFallback :
    /\ origin[u].kind = "unwrapOrElse"
    /\ lastOp.op = "cancel" /\ lastOp.t = u /\ lastOp.pre = "pending"
    /\ \E i \in AwaitsOf(u) :
         /\ Len(Delivered(i)) = 1
         /\ Delivered(i)[1].arg = Raw(OrValue)
\* ---------------------------------------------------------------- FallibleUnwrapSpec
\* One fallible future and the unwrapped futures made from it by unwrap,
\* unwrapOr, unwrapOrElse and match.
FallibleUnwrapInit ==
  /\ \E r \in {q \in Roots : q.w.tasks[1].fallible} :
       /\ tasks = r.w.tasks
       /\ log = r.w.log
       /\ origin = <<Origin(r.kind, 0, "-")>>
  /\ subs = <<>>
  /\ lastOp = Op("make", 1, NoVal, 0, "-")
  /\ nops = 0

CallMatch(t) ==
  /\ nops < MaxOps /\ Len(tasks) < MaxTasks
  /\ Commit(match(World, t), Op("match", t, NoVal, 0, tasks[t].tag))
  /\ origin' = Append(origin, Origin("match", t, "-"))
  /\ UNCHANGED subs

FallibleUnwrapNext ==
  \/ \E t \in Sources, v \in Values : SignalSucceed(t, v)
  \/ \E t \in Sources, v \in Values : SignalFail(t, v)
  \/ \E t \in Sources : CallCancel(t)
  \/ \E t \in Sources : Await(t)
  \/ \E t \in Sources : CallUnwrap(t)
  \/ \E t \in Sources : CallUnwrapOr(t)
  \/ \E t \in Sources : CallUnwrapOrElse(t)
  \/ \E t \in Sources : CallMatch(t)
  \/ \E u \in UnwrappedIds : AwaitUnwrapped(u)
  \/ \E u \in UnwrappedIds : CancelUnwrapped(u)
  \/ \E u \in UnwrappedIds : OnCancelledUnwrapped(u)

FallibleUnwrapSpec == FallibleUnwrapInit /\ [][FallibleUnwrapNext]_vars
\* ---------------------------------------------------------------- C22
\* The unwrapped futures made by a method of the given kind.
UnwrappedBy(kind) == {u \in UnwrappedIds : origin[u].kind = kind}

\* The source of unwrapped future u and, once it has resolved, its Result.
SourceOf(u) == tasks[origin[u].src]

\* C22: for u = f.unwrap() of a fallible f, u never holds a Result; once f
\* has succeeded with v, u is completed with v and every await of u has been
\* handed v; once f has failed with e or is cancelled, u is not completed and
\* every await of u has been handed an error, which after a failure is e.
C22_FallibleUnwrap ==
  \A u \in UnwrappedBy("unwrap") :
    /\ tasks[u].tag = "completed" => tasks[u].value.tag = "raw"
    /\ (SourceOf(u).tag = "completed" /\ SourceOf(u).value.tag = "Ok") =>
         /\ tasks[u].tag = "completed"
         /\ tasks[u].value = Raw(SourceOf(u).value.v)
         /\ \A i \in AwaitsOf(u) :
              /\ Len(Delivered(i)) = 1
              /\ Delivered(i)[1].opt = "value"
              /\ Delivered(i)[1].arg = Raw(SourceOf(u).value.v)
    /\ (SourceOf(u).tag = "completed" /\ SourceOf(u).value.tag = "Error") =>
         /\ tasks[u].tag # "completed"
         /\ \A i \in AwaitsOf(u) :
              /\ Len(Delivered(i)) = 1
              /\ Delivered(i)[1].opt = "throw"
              /\ Delivered(i)[1].arg = Raw(SourceOf(u).value.v)
    /\ SourceOf(u).tag = "cancelled" =>
         /\ tasks[u].tag # "completed"
         /\ \A i \in AwaitsOf(u) :
              /\ Len(Delivered(i)) = 1
              /\ Delivered(i)[1].opt = "throw"
\* ---------------------------------------------------------------- C23
\* C23: for u = f.unwrapOr(value) or f.unwrapOrElse(fn) of a fallible f, u
\* never holds a Result; once f has succeeded with v, u is completed with v
\* (or with the fallback, when u was cancelled before); once f has failed or
\* is cancelled, u is completed with the fallback.
C23_FallibleUnwrapOr ==
  \A u \in WithFallback :
    /\ tasks[u].tag = "completed" => tasks[u].value.tag = "raw"
    /\ (SourceOf(u).tag = "completed" /\ SourceOf(u).value.tag = "Ok") =>
         /\ tasks[u].tag = "completed"
         /\ tasks[u].value \in {Raw(SourceOf(u).value.v), Raw(OrValue)}
    /\ (SourceOf(u).tag = "completed" /\ SourceOf(u).value.tag = "Error") =>
         /\ tasks[u].tag = "completed"
         /\ tasks[u].value = Raw(OrValue)
    /\ SourceOf(u).tag = "cancelled" =>
         /\ tasks[u].tag = "completed"
         /\ tasks[u].value = Raw(OrValue)
\* ---------------------------------------------------------------- C24
\* C24: for u = f.match(config): once f has resolved while u was pending, u
\* is completed with the result of the branch of f's variant; a branch is
\* invoked at most once for u, and only the branch of f's variant; once f
\* or u is cancelled, u is not completed and every await of u has been
\* handed an error, once.
C24_Match ==
  \A u \in UnwrappedBy("match") :
    /\ Len(FnCalls(u)) <= 1
    /\ \A k \in 1..Len(FnCalls(u)) :
         /\ SourceOf(u).tag = "completed"
         /\ FnCalls(u)[k].opt = SourceOf(u).value.tag
         /\ FnCalls(u)[k].arg = SourceOf(u).value
    /\ tasks[u].tag = "completed" =>
         /\ SourceOf(u).tag = "completed"
         /\ tasks[u].value =
              IF SourceOf(u).value.tag = "Ok"
              THEN Raw(MatchOk(SourceOf(u).value.v))
              ELSE Raw(MatchError(SourceOf(u).value.v))
    /\ (SourceOf(u).tag = "completed" /\ tasks[u].tag # "cancelled") =>
         tasks[u].tag = "completed"
    /\ (SourceOf(u).tag = "cancelled" \/ tasks[u].tag = "cancelled") =>
         /\ tasks[u].tag = "cancelled"
         /\ \A i \in AwaitsOf(u) :
              /\ Len(Delivered(i)) = 1
              /\ Delivered(i)[1].opt = "throw"
\* ---------------------------------------------------------------- option and result
\* src/src/option.ts and src/src/result.ts: the synchronous containers.
\* JavaScript values are written as their source text. An Option is a record
\* with the identity of its object: None() always returns the frozen object
\* NONE, Some(t) a new object.
JsValues == {"undefined", "null", "0", "''", "false", "NaN", "1", "'a'", "true"}
Falsy(thing) == thing \in {"undefined", "null", "0", "''", "false", "NaN"}
Nullish(thing) == thing \in {"undefined", "null"}

Some(t) == [tag |-> "Some", v |-> t, ref |-> "new"]
NONE == [tag |-> "None", v |-> "undefined", ref |-> "NONE"]
None == NONE
Thrown(message) == [tag |-> "throw", v |-> message]

\* Option.from: !thing ? None() : Some(thing)
optionFrom(thing) == IF Falsy(thing) THEN None ELSE Some(thing)

\* exec_fn returns a value or throws one; err_fn is absent or returns a value.
Returns(x) == [does |-> "return", v |-> x]
Throws(x) == [does |-> "throw", v |-> x]
NoFn == [given |-> FALSE, v |-> "undefined"]
ErrFn(x) == [given |-> TRUE, v |-> x]

\* Result.fromExecution: Error(err_fn?.(error) ?? error) in the catch block
resultFromExecution(exec_fn, err_fn) ==
  IF exec_fn.does = "return" THEN Ok(exec_fn.v)
  ELSE IF err_fn.given /\ ~Nullish(err_fn.v) THEN Error(err_fn.v)
  ELSE Error(exec_fn.v)

\* A JSON object is a function from the property names it has to their
\* values; Absent marks a property left out when the object is built.
Fields == {"__orf_type__", "tag", "value", "error"}
Absent == "<absent>"
Field(f, type, tag, val, err) ==
  CASE f = "__orf_type__" -> type
    [] f = "tag" -> tag
    [] f = "value" -> val
    [] OTHER -> err
Json(type, tag, val, err) ==
  [f \in {g \in Fields : Field(g, type, tag, val, err) # Absent} |->
     Field(f, type, tag, val, err)]
\* json.f and "f" in json
Get(json, f) == IF f \in DOMAIN json THEN json[f] ELSE "undefined"
In(f, json) == f \in DOMAIN json

\* __Some.toJSON / __None.toJSON
optionToJSON(opt) ==
  IF opt.tag = "Some"
  THEN Json("Option", "Some", opt.v, Absent)
  ELSE Json("Option", "None", Absent, Absent)

\* Option.fromJSON that builds a new None object.
optionFromJSONFresh(json) ==
  IF Get(json, "__orf_type__") # "Option" THEN Thrown("Invalid Option JSON")
  ELSE IF Get(json, "tag") = "Some" THEN Some(Get(json, "value"))
  ELSE [NONE EXCEPT !.ref = "new"]

\* Option.fromJSON of src/src/option.ts
optionFromJSON(json) ==
  IF Get(json, "__orf_type__") # "Option" THEN Thrown("Invalid Option JSON")
  ELSE IF Get(json, "tag") = "Some" THEN Some(Get(json, "value"))
  ELSE None

\* Option.fromJSON of the documented option.ts (src/unnamed/part_001)
optionFromJSONTagged(json) ==
  IF Get(json, "__orf_type__") # "Option" /\ ~In("tag", json)
  THEN Thrown("Invalid Option JSON")
  ELSE IF Get(json, "tag") = "Some" /\ In("value", json) THEN Some(Get(json, "value"))
  ELSE IF Get(json, "tag") = "None" THEN None
  ELSE Thrown("Invalid Option JSON")

\* __Ok.toJSON / __Error.toJSON
resultToJSON(result) ==
  IF result.tag = "Ok"
  THEN Json("Result", "Ok", result.v, Absent)
  ELSE Json("Result", "Error", Absent, result.v)

\* Result.fromJSON
resultFromJSON(json) ==
  IF Get(json, "__orf_type__") # "Result" /\ ~In("tag", json)
  THEN Thrown("Invalid Result JSON")
  ELSE IF Get(json, "tag") = "Ok" /\ In("value", json) THEN Ok(Get(json, "value"))
  ELSE IF Get(json, "tag") = "Error" /\ In("error", json) THEN Error(Get(json, "error"))
  ELSE Thrown("Invalid Result JSON")

\* ---------------------------------------------------------------- ValueSpec
\* The synchronous functions applied to inputs drawn from bounded sets: every
\* step is one call, recorded in lastOp with its argument and what it
\* returned or threw. No future exists in this specification.
\* A call is the triple of the function, its argument and its outcome.
Call(fn, arg, ret) == <<fn, arg, ret>>
Called(fn) == lastOp[1] = fn
Arg == lastOp[2]
Ret == lastOp[3]

Results == {Ok("1"), Ok("2"), Error("'E1'"), Error("'E2'")}
Arrays == UNION {[1..n -> Results] : n \in 0..MaxLen}
\* The object { a: array[1], b: array[2], ... } as for-in enumerates it.
Dict(array) == [i \in 1..Len(array) |-> <<Keys[i], array[i]>>]
Options == {None} \cup {Some(v) : v \in JsValues}
Payloads == {Absent, "undefined", "1"}
Jsons ==
  {Json(type, tag, val, err) :
     type \in {Absent, "Option", "Result"},
     tag \in {Absent, "Some", "None", "Ok", "Error"},
     val \in Payloads, err \in Payloads}
ExecFns == {Returns("1"), Throws("'HELP'")}
ErrFns == {NoFn} \cup {ErrFn(v) : v \in {"'ERROR'", "null", "undefined", "0"}}

ValueInit ==
  /\ tasks = <<>>
  /\ log = <<>>
  /\ subs = <<>>
  /\ origin = <<>>
  /\ lastOp = Call("none", "undefined", "undefined")
  /\ nops = 0

Recorded(call) ==
  /\ lastOp' = call
  /\ UNCHANGED <<tasks, log, subs, origin, nops>>

CallResultAll(array) == Recorded(Call("Result.all", array, resultAll(array, <<>>)))
CallResultAllFromDict(array) ==
  Recorded(Call("Result.allFromDict", Dict(array), resultAllFromDict(Dict(array), <<>>)))
CallOptionFrom(thing) == Recorded(Call("Option.from", thing, optionFrom(thing)))
CallFromExecution(exec_fn, err_fn) ==
  Recorded(Call("Result.fromExecution", <<exec_fn, err_fn>>,
                 resultFromExecution(exec_fn, err_fn)))
CallOptionFromJSON(json) ==
  Recorded(Call("Option.fromJSON", json, optionFromJSON(json)))
CallOptionFromJSONTagged(json) ==
  Recorded(Call("Option.fromJSON (documented)", json, optionFromJSONTagged(json)))
CallResultFromJSON(json) ==
  Recorded(Call("Result.fromJSON", json, resultFromJSON(json)))
\* Option.fromJSON(opt.toJSON()) and Result.fromJSON(result.toJSON())
RoundTripOption(opt) ==
  Recorded(Call("Option.roundTrip", opt, optionFromJSON(optionToJSON(opt))))
RoundTripResult(result) ==
  Recorded(Call("Result.roundTrip", result, resultFromJSON(resultToJSON(result))))

ValueNext ==
  \/ \E array \in Arrays : CallResultAll(array)
  \/ \E array \in Arrays : CallResultAllFromDict(array)
  \/ \E thing \in JsValues : CallOptionFrom(thing)
  \/ \E exec_fn \in ExecFns, err_fn \in ErrFns : CallFromExecution(exec_fn, err_fn)
  \/ \E json \in Jsons : CallOptionFromJSON(json)
  \/ \E json \in Jsons : CallOptionFromJSONTagged(json)
  \/ \E json \in Jsons : CallResultFromJSON(json)
  \/ \E opt \in Options : RoundTripOption(opt)
  \/ \E result \in {Ok(v) : v \in JsValues} \cup {Error(v) : v \in JsValues} :
       RoundTripResult(result)

ValueSpec == ValueInit /\ [][ValueNext]_vars

\* ---------------------------------------------------------------- C25
\* The positions of the Errors in a sequence of Results.
ErrorsAt(results) == {i \in 1..Len(results) : results[i].tag = "Error"}
\* What the scan from the left must return for a sequence of Results.
Scanned(results, payloads) ==
  IF ErrorsAt(results) = {} THEN Ok(payloads)
  ELSE results[CHOOSE i \in ErrorsAt(results) : \A j \in ErrorsAt(results) : i <= j]

\* C25: Result.all returns the Error at the smallest index of the array when
\* there is one, whatever Errors follow it, and otherwise Ok of the payloads
\* in the order of the array; Result.allFromDict returns the Error of the
\* first key holding one, in the order of the keys, and otherwise Ok of the
\* object with every key holding its payload.
C25_ResultAll ==
  /\ Called("Result.all") =>
        Ret = Scanned(Arg, [i \in 1..Len(Arg) |-> Arg[i].v])
  /\ Called("Result.allFromDict") =>
        Ret = Scanned([i \in 1..Len(Arg) |-> Arg[i][2]],
                      [i \in 1..Len(Arg) |-> <<Arg[i][1], Arg[i][2].v>>])

\* Result.allFromDict({ a: Ok(1), b: Error("E1"), c: Error("E2") }) has
\* returned Error("E1").
C25_Witness ==
  /\ Called("Result.allFromDict")
  /\ Arg = <<<<"a", Ok("1")>>, <<"b", Error("'E1'")>>, <<"c", Error("'E2'")>>>>
  /\ Ret = Error("'E1'")

\* ---------------------------------------------------------------- C26
\* C26: fromJSON applied to the toJSON of an Option or of a Result returns a
\* container of the same variant holding the same payload, and for None it
\* returns the one None object.
C26_RoundTrip ==
  /\ Called("Option.roundTrip") =>
        /\ Ret.tag = Arg.tag
        /\ Ret.v = Arg.v
        /\ Arg.tag = "None" => Ret.ref = "NONE"
  /\ Called("Result.roundTrip") =>
        /\ Ret.tag = Arg.tag
        /\ Ret.v = Arg.v

\* Option.fromJSON(Option.None().toJSON()) has returned NONE.
C26_Witness ==
  /\ Called("Option.roundTrip")
  /\ Arg.tag = "None"
  /\ Ret = NONE

\* ---------------------------------------------------------------- C27
\* The kind discriminant of a JSON object is not the given one, or is absent.
WrongKind(json, kind) ==
  "__orf_type__" \notin DOMAIN json \/ json["__orf_type__"] # kind
\* The JSON object has the given tag and lacks the field that tag requires.
Lacks(json, tag, field) ==
  /\ "tag" \in DOMAIN json
  /\ json["tag"] = tag
  /\ field \notin DOMAIN json

\* C27: Option.fromJSON and Result.fromJSON throw, and return no container,
\* when the kind discriminant of the input is absent or is not the
\* container's own kind, whatever tag and payload the input carries, and
\* when the input lacks the field its tag requires: value for Some and Ok,
\* error for Error.
C27_FromJSONRejects ==
  /\ (/\ Called("Option.fromJSON") \/ Called("Option.fromJSON (documented)")
      /\ WrongKind(Arg, "Option") \/ Lacks(Arg, "Some", "value"))
       => Ret.tag = "throw"
  /\ (/\ Called("Result.fromJSON")
      /\ \/ WrongKind(Arg, "Result")
         \/ Lacks(Arg, "Ok", "value")
         \/ Lacks(Arg, "Error", "error"))
       => Ret.tag = "throw"

\* ---------------------------------------------------------------- C28
\* C28: Option.from returns None exactly for null and undefined, and Some of
\* the value for every other value, 0, "" and false among them.
C28_OptionFrom ==
  Called("Option.from") =>
    IF Arg \in {"null", "undefined"}
    THEN Ret.tag = "None"
    ELSE Ret.tag = "Some" /\ Ret.v = Arg

\* ---------------------------------------------------------------- C29
\* C29: Result.fromExecution returns Ok of what exec_fn returns; when exec_fn
\* throws and err_fn is given it returns Error of what err_fn returns, null
\* and undefined included; when exec_fn throws and no err_fn is given it
\* returns Error of the thrown value.
C29_FromExecution ==
  Called("Result.fromExecution") =>
    Ret = CASE Arg[1].does = "return" -> Ok(Arg[1].v)
            [] Arg[1].does = "throw" /\ Arg[2].given -> Error(Arg[2].v)
            [] OTHER -> Error(Arg[1].v)

\* ---------------------------------------------------------------- C30
\* The array holds a plain future and a fallible one.
Mixed == (\E e \in Elems : tasks[e].fallible) /\ (\E e \in Elems : ~tasks[e].fallible)
\* What element i resolved to: the value of a plain future, the Result of a
\* fallible one.
Own(i) == IF tasks[Array[i]].fallible THEN ElementValues[i] ELSE ElementValues[i].v

\* C30: an aggregate made by all over an array mixing plain and fallible
\* futures is completed with the array whose i-th entry is what the i-th
\* element resolved to, the value of a plain future and the Ok or Error of a
\* fallible one; an Error among the elements does not become the result.
C30_AllMixed ==
  \A t \in Aggregates :
    (origin[t].kind = "all" /\ Mixed /\ tasks[t].tag = "completed") =>
      /\ tasks[t].value.tag = "raw"
      /\ Len(tasks[t].value.v) = Len(Array)
      /\ \A i \in 1..Len(Array) : tasks[t].value.v[i] = Own(i)

\* ---------------------------------------------------------------- C31
\* The step is a cancel() on unwrapped future u found in a state of the
\* given kind.
CancelsUnwrapped(u, pending) ==
  /\ u \in UnwrappedIds
  /\ lastOp'.op = "cancel" /\ lastOp'.t = u
  /\ (lastOp'.pre = "pending") = pending
\* The handler u holds: the #cancel slot.
Handler(u) == tasks[u].cancel
\* What the step added to the trace.
Invoked == Suffix(log, log')

\* C31: a cancel() on a pending unwrapped future that holds no handler marks
\* it cancelled and invokes nothing; one that holds a handler invokes that
\* handler once with the error (a callback given to onCancelled or the
\* rejection of an awaiter is called once and nothing else is; the cleanup
\* of unwrapOr / unwrapOrElse resolves the future with the fallback) and
\* leaves the future cancelled unless the handler resolved it; a cancel() on
\* a future that is not pending changes nothing and invokes nothing.
C31_UnwrappedCancel ==
  [][\A u \in Ids :
       /\ CancelsUnwrapped(u, TRUE) =>
            CASE Handler(u).k = "null" ->
                   /\ tasks'[u].tag = "cancelled"
                   /\ Invoked = <<>>
              [] Handler(u).k = "user" ->
                   /\ tasks'[u].tag = "cancelled"
                   /\ Len(Invoked) = 1
                   /\ Invoked[1].e = "cb" /\ Invoked[1].id = Handler(u).id
                   /\ Invoked[1].arg = CannotCancel
              [] Handler(u).k = "awaitThrow" ->
                   /\ tasks'[u].tag = "cancelled"
                   /\ Len(Invoked) = 1
                   /\ Invoked[1].e = "deliver" /\ Invoked[1].id = Handler(u).id
                   /\ Invoked[1].opt = "throw" /\ Invoked[1].arg = CannotCancel
              [] OTHER ->
                   /\ origin[u].kind \in {"unwrapOr", "unwrapOrElse"}
                   /\ tasks'[u].tag = "completed"
                   /\ tasks'[u].value = Raw(OrValue)
                   /\ Count(Invoked, LAMBDA ev : ev.e = "fn") =
                        (IF origin[u].kind = "unwrapOrElse" THEN 1 ELSE 0)
       /\ CancelsUnwrapped(u, TRUE) =>
            \A t \in Ids \ {u} : tasks'[t] = tasks[t]
       /\ CancelsUnwrapped(u, FALSE) => (tasks' = tasks /\ log' = log)]_vars

\* A cancel() has just called the callback given to onCancelled of a pending
\* unwrapped future, and a second cancel() has followed.
C31_Witness ==
  \E u \in UnwrappedIds :
    /\ lastOp.op = "cancel" /\ lastOp.t = u /\ lastOp.pre = "cancelled"
    /\ tasks[u].cancel.k = "user"
    /\ Calls(log, tasks[u].cancel.id) = 1

\* ---------------------------------------------------------------- C32
\* The handlers registered on unwrapped future u, by onCancelled or by an
\* await, in the order of their registration.
HandlersOf(u) ==
  SelectSeq(SubIds, LAMBDA i : subs[i].t = u /\ subs[i].kind \in {"can", "await"})
\* Handler i of u was registered when the slot of u was already filled.
Late(u, i) ==
  \/ u \in WithFallback
  \/ \E j \in 1..(i - 1) :
       subs[j].t = u /\ subs[j].kind \in {"can", "await"} /\ subs[j].tag = "pending"
\* Handler i has been called with the error.
Notified(i) ==
  \E k \in 1..Len(log) :
    /\ log[k].id = i
    /\ log[k].e = "cb" \/ (log[k].e = "deliver" /\ log[k].opt = "throw")

\* C32: the slot of an unwrapped future, once filled, keeps its handler; it
\* holds the cleanup its start routine returned if there is one, otherwise
\* the first handler registered while the future was pending, and nothing
\* if there is none; a handler registered when the slot was filled is never
\* called, whether the future is cancelled later or was cancelled before.
C32_SingleSlot ==
  /\ [](\A u \in UnwrappedIds :
          /\ Handler(u).k =
               (CASE origin[u].kind = "unwrapOr" -> "resolveOr"
                  [] origin[u].kind = "unwrapOrElse" -> "resolveOrElse"
                  [] \A i \in 1..Len(HandlersOf(u)) : Late(u, HandlersOf(u)[i])
                       \/ subs[HandlersOf(u)[i]].tag # "pending" -> "null"
                  [] OTHER -> IF subs[CHOOSE i \in 1..Len(subs) :
                                       /\ subs[i].t = u /\ subs[i].tag = "pending"
                                       /\ subs[i].kind \in {"can", "await"}
                                       /\ ~Late(u, i)].kind = "can"
                              THEN "user" ELSE "awaitThrow")
          /\ Handler(u).k \in {"user", "awaitThrow"} =>
               /\ subs[Handler(u).id].t = u
               /\ ~Late(u, Handler(u).id)
          /\ \A i \in 1..Len(subs) :
               (subs[i].t = u /\ Late(u, i)) => ~Notified(i))
  /\ [][\A u \in UnwrappedIds :
          Handler(u).k # "null" => tasks'[u].cancel = tasks[u].cancel]_vars

\* Two handlers were registered on a pending unwrap() future, which was then
\* cancelled: the first has been called, the second has not.
C32_Witness ==
  \E u \in UnwrappedIds : \E i, j \in 1..Len(subs) :
    /\ i < j
    /\ subs[i].t = u /\ subs[i].tag = "pending"
    /\ subs[j].t = u /\ subs[j].tag = "pending" /\ subs[j].kind = "can"
    /\ tasks[u].tag = "cancelled"
    /\ Notified(i) /\ ~Notified(j)

\* ---------------------------------------------------------------- C33
\* A resolved-subscriber of t, or the resolution callback of an awaiter of t,
\* has been invoked.
ResolvedNotified(t) ==
  \E k \in 1..Len(log) :
    /\ log[k].id \in 1..Len(subs) /\ subs[log[k].id].t = t
    /\ \/ log[k].e = "cb" /\ subs[log[k].id].kind = "res"
       \/ log[k].e = "deliver" /\ log[k].opt = "Some"
\* A cancel-subscriber of t, or the cancellation callback of an awaiter of t,
\* has been invoked.
CancelNotified(t) ==
  \E k \in 1..Len(log) :
    /\ log[k].id \in 1..Len(subs) /\ subs[log[k].id].t = t
    /\ \/ log[k].e = "cb" /\ subs[log[k].id].kind = "can"
       \/ log[k].e = "deliver" /\ log[k].opt = "None"

\* C33: no future has both notified a resolved-subscriber and notified a
\* cancel-subscriber; the ones notified are those of the state it is in.
C33_ExclusiveNotification ==
  \A t \in Ids :
    /\ ~(ResolvedNotified(t) /\ CancelNotified(t))
    /\ ResolvedNotified(t) => tasks[t].tag = "completed"
    /\ CancelNotified(t) => tasks[t].tag = "cancelled"

\* A future with a resolved-subscriber and a cancel-subscriber, both
\* registered while it was pending, has been cancelled and a completion
\* signal has followed: only the cancel-subscriber was invoked.
C33_Witness ==
  \E t \in Ids : \E i, j \in 1..Len(subs) :
    /\ subs[i].t = t /\ subs[i].kind = "res" /\ subs[i].tag = "pending"
    /\ subs[j].t = t /\ subs[j].kind = "can" /\ subs[j].tag = "pending"
    /\ lastOp.op \in {"resolve", "succeed", "fail"} /\ lastOp.t = t
    /\ lastOp.pre = "cancelled"
    /\ CancelNotified(t) /\ ~ResolvedNotified(t)

\* ---------------------------------------------------------------- C34
\* The chains a -> b = a.map(f) -> c = b.map(g), as <<a, b, c>>.
Chains ==
  {<<origin[origin[c].src].src, origin[c].src, c>> :
     c \in {t \in Mapped : origin[t].src \in Mapped}}
AllPending(chain) == \A k \in 1..3 : tasks[chain[k]].tag = "pending"

\* C34: for a chain a -> b -> c of map with the three futures pending, a
\* cancel() of any of them ends with the three cancelled, the cleanup routine
\* of a (if its start routine ran and returned one) invoked exactly once, and
\* every cancel-subscriber and awaiter of each of the three invoked exactly
\* once.
C34_CancelCascade ==
  [][\A chain \in Chains :
       (/\ AllPending(chain)
        /\ lastOp'.op = "cancel"
        /\ lastOp'.t \in {chain[1], chain[2], chain[3]}) =>
         /\ \A k \in 1..3 : tasks'[chain[k]].tag = "cancelled"
         /\ Cleanups(log', chain[1]) = (IF ReturnedCleanup(log, chain[1]) THEN 1 ELSE 0)
         /\ \A k \in 1..3 :
              \A i \in 1..Len(PendingSubs(chain[k], {"can", "then"})) :
                Calls(log', PendingSubs(chain[k], {"can", "then"})[i]) = 1]_vars

\* The middle future of a pending chain whose source has a cleanup routine
\* was cancelled: the three are cancelled, the cleanup ran once and the
\* cancel-subscriber of the last future was invoked once.
C34_Witness ==
  \E chain \in Chains : \E i \in 1..Len(subs) :
    /\ lastOp.op = "cancel" /\ lastOp.t = chain[2] /\ lastOp.pre = "pending"
    /\ \A k \in 1..3 : tasks[chain[k]].tag = "cancelled"
    /\ Cleanups(log, chain[1]) = 1
    /\ subs[i].t = chain[3] /\ subs[i].kind = "can" /\ subs[i].tag = "pending"
    /\ Calls(log, i) = 1

\* ---------------------------------------------------------------- C35
\* C35: for every aggregate made by all or allFromDict, over any array or
\* object, the empty ones included: once every element is completed the
\* aggregate is completed; the aggregate of an empty array is completed,
\* with the empty array, as soon as it is made.
C35_AllLiveness ==
  \A t \in Aggregates :
    (\A e \in Elems : tasks[e].tag = "completed") =>
      /\ tasks[t].tag = "completed"
      /\ Elems = {} => tasks[t].value = Raw(<<>>)

\* ---------------------------------------------------------------- C36
\* The calls of or_fn made for unwrapped future u.
OrFnCalls(u) == SelectSeq(log, LAMBDA ev : ev.e = "fn" /\ ev.t = u /\ ev.opt = "or_fn")

\* C36: the function given to unwrapOrElse is called at most once for the
\* unwrapped future, whatever the order of the source's resolution, the
\* source's cancellation and the cancel() calls on the unwrapped future,
\* and never when the unwrapped future is already completed.
C36_OrFnOnce ==
  \A u \in UnwrappedIds :
    origin[u].kind = "unwrapOrElse" =>
      /\ Len(OrFnCalls(u)) <= 1
      /\ \A k \in 1..Len(OrFnCalls(u)) : OrFnCalls(u)[k].tag # "completed"

\* ---------------------------------------------------------------- C37
\* C37: a cancel() on an unwrapped future, made by unwrap, unwrapOr,
\* unwrapOrElse or match, leaves every source as it was, with its state, its
\* value and its subscribers, and invokes no cleanup routine of a source;
\* and a completion signal of the source leaves an unwrapped future that is
\* completed or cancelled as it was.
C37_NoUpstreamCancel ==
  [][\A u \in UnwrappedIds :
       /\ (lastOp'.op = "cancel" /\ lastOp'.t = u) =>
            \A t \in Sources :
              /\ tasks'[t] = tasks[t]
              /\ Cleanups(log', t) = Cleanups(log, t)
       /\ (/\ lastOp'.op = "resolve" /\ lastOp'.t = origin[u].src
           /\ Terminal(tasks[u].tag)) =>
            /\ tasks'[u].tag = tasks[u].tag
            /\ tasks'[u].value = tasks[u].value]_vars

\* A match() future was cancelled while its source, which has a cleanup
\* routine, was pending, and the source has then been completed: the source
\* is completed, its cleanup routine never ran, the match() future is
\* cancelled.
C37_Witness ==
  \E u \in UnwrappedIds :
    /\ origin[u].kind = "match"
    /\ lastOp.op = "resolve" /\ lastOp.t = origin[u].src /\ lastOp.pre = "pending"
    /\ tasks[u].tag = "cancelled"
    /\ tasks[origin[u].src].tag = "completed"
    /\ ReturnedCleanup(log, origin[u].src)
    /\ Cleanups(log, origin[u].src) = 0

\* ---------------------------------------------------------------- ReentrantSpec
\* One future and subscribers of which some, when invoked, subscribe again
\* to the same future.
ReentrantInit == Init

\* t.onResolved(cb) where cb calls t.onResolved(nested); the subscriber and
\* its nested subscriber take two consecutive ids.
CallOnResolvedReentrant(t) ==
  /\ nops < MaxOps /\ Len(subs) + 1 < MaxSubs
  /\ Commit(onResolved(World, t, ReenterCb(t, Len(subs) + 1)),
            Op("onResolved", t, NoVal, Len(subs) + 1, tasks[t].tag))
  /\ subs' = subs \o <<Sub(t, "reenter", tasks[t].tag), Sub(t, "nested", tasks[t].tag)>>
  /\ UNCHANGED origin

ReentrantNext ==
  \/ \E t \in Ids, v \in Values : SignalResolve(t, v)
  \/ \E t \in Ids, v \in Values : SignalSucceed(t, v)
  \/ \E t \in Ids, v \in Values : SignalFail(t, v)
  \/ \E t \in Ids : CallCancel(t)
  \/ \E t \in Ids : CallOnResolved(t)
  \/ \E t \in Ids : Await(t)
  \/ \E t \in Ids : CallOnResolvedReentrant(t)

ReentrantSpec == ReentrantInit /\ [][ReentrantNext]_vars

\* ---------------------------------------------------------------- C38
\* The positions in the trace of the invocations of subscriber i.
InvokedAt(i) == {k \in 1..Len(log) : log[k].e \in {"cb", "deliver"} /\ log[k].id = i}
\* Subscriber s was registered before the nested subscriber j, which is
\* registered when subscriber j - 1 is invoked: s has a lower id, or both s
\* and j - 1 were registered while the future was pending.
BeforeNested(s, j) ==
  /\ s # j
  /\ subs[s].t = subs[j].t
  /\ subs[s].kind \in {"res", "then", "reenter"}
  /\ s < j \/ (subs[s].tag = "pending" /\ subs[j - 1].tag = "pending")

\* C38: a resolved-subscriber registered by a resolved-subscriber while it
\* is being invoked is invoked only after every subscriber registered
\* before it has been invoked.
C38_ReentrantOrder ==
  \A j \in 1..Len(subs) :
    subs[j].kind = "nested" =>
      \A k \in InvokedAt(j) :
        \A s \in 1..Len(subs) :
          BeforeNested(s, j) => \E k2 \in InvokedAt(s) : k2 < k

C40_CleanupOnCancelOnly ==
  /\ [](\A t \in Ids :
          /\ Cleanups(log, t) <= 1
          /\ Cleanups(log, t) = 1 => tasks[t].tag = "cancelled"
          /\ tasks[t].tag = "completed" => Cleanups(log, t) = 0)
  /\ [][\A t \in Ids :
          Cleanups(log', t) > Cleanups(log, t) =>
            (tasks[t].tag = "pending" /\ tasks'[t].tag = "cancelled")]_vars

\* cancel() was called on a completed future whose start routine had returned
\* a cleanup routine: the routine has not run.
C40_Witness ==
  \E t \in Ids :
    /\ lastOp.op = "cancel" /\ lastOp.t = t /\ lastOp.pre = "completed"
    /\ ReturnedCleanup(log, t)
    /\ Cleanups(log, t) = 0
====
